---- MODULE Spec2Model ----
(***************************************************************************)
(* A model of the UI-interaction engine of notebook-lm-generation:        *)
(*   - StudioAutomator (src/src/generators/studio_automator.py): the       *)
(*     per-source material generation workflow, process_all_sources;      *)
(*   - NotebookLMClient (src/src/generators/notebooklm.py): the click      *)
(*     helper and the multi-strategy element resolver.                     *)
(* The browser is the environment: what a lookup finds, whether a click    *)
(* goes through and what the page shows are chosen nondeterministically.   *)
(***************************************************************************)
EXTENDS Integers, Sequences, FiniteSets, TLC

\* ------------------------------------------------------------------ bounds
\* Most source checkboxes in the notebook's source panel.
MaxSources == 2
\* Longest list of requested material types.
MaxMaterials == 2
\* Most generate_* calls in one run: sources times requested material types.
MaxAttempts == 4
\* Most calls of a click helper, and most overlay dismissals, in one session.
MaxClicks == 2
\* Most lookup strategies of one catalog entry (or XPath patterns of one text lookup).
MaxStrategies == 3
\* Most elements in the page that a lookup can match.
MaxElements == 2
\* Largest timeout argument of a resolver call, in seconds.
MaxTimeout == 4
\* Most div elements in the chat search root.
MaxDivs == 2
\* Most response selectors tried by the selector pass of the chat extraction.
MaxSelectors == 2
\* Largest timeout argument of upload_file_source, in seconds.
MaxWaitTimeout == 5
\* Most sources a notebook shows.
MaxCount == 2
\* Most materials the Studio panel lists.
MaxItems == 2
\* Most agents calling claim_task at the same time.
MaxAgents == 2
\* The runs of one character in a text typed.
MaxRuns == 2
\* Most entries of the pending list of a TaskQueue, and of its completed and failed
\* lists together.
MaxListed == 2

\* --------------------------------------------------------------- constants
None == "None"
\* A missing element handle (`None` where the code holds a WebElement); handles are 1, 2, ...
NoElement == 0

\* studio_automator.py:256  aria[:30] + "..." if len(aria) > 30 else aria
TruncLen == 30

\* MaterialType (studio_automator.py:31-38), in declaration order.
MaterialTypeList == <<"audio", "video", "mindmap", "quiz", "flashcards", "infographic">>
MaterialType == {MaterialTypeList[k] : k \in 1..Len(MaterialTypeList)}

\* studio_automator.py:73 and :76
LANGUAGE_REQUIRED == {"audio", "video", "infographic"}
IMMEDIATE_GENERATION == {"mindmap", "quiz", "flashcards"}

\* ---------------------------------------------------------------- strings
\* A text is a sequence of one-character strings.
LowerChar(c) ==
    CASE c = "A" -> "a"
      [] c = "L" -> "l"
      [] c = "E" -> "e"
      [] c = "S" -> "s"
      [] OTHER -> c

\* str.lower()
RECURSIVE Lower(_)
Lower(s) == IF s = <<>> THEN <<>> ELSE <<LowerChar(Head(s))>> \o Lower(Tail(s))

\* Python's `pat in s`
Contains(pat, s) ==
    \E k \in 0..(Len(s) - Len(pat)) : SubSeq(s, k + 1, k + Len(pat)) = pat

\* aria-label of the select-all checkbox ("Alle Quellen auswaehlen", shortened)
SelectAllAria == <<"A", "l", "l", "e">>

\* Display names of the sources ("Lecture1", "Lecture2", shortened)
SourceNames == {<<"L", "1">>, <<"L", "2">>}

\* ------------------------------------------------------------------ state
VARIABLES
    checkboxes,         \* DOM: the labelled checkboxes of the source panel, in document order
    selected,           \* DOM: positions (in checkboxes) of the source checkboxes that are checked
    source_patterns,    \* argument of process_all_sources: None or a list of patterns
    materials,          \* argument of process_all_sources: the requested material types
    sources,            \* process_all_sources' local list of SourceInfo, after filtering
    pc,                 \* position in process_all_sources
    i,                  \* index of the source being processed (1-based)
    j,                  \* index of the material type being generated (1-based)
    results,            \* generate_all_materials_for_source's local result list
    all_results,        \* process_all_sources' result map: source name -> list of MaterialStatus
    generation_status,  \* StudioAutomator.generation_status, the run's log
    calls,              \* history: the operations process_all_sources invoked, in order
    steps,              \* history: the steps of the latest generate_* call, in order
    \* -- the click helper (_click_element_safe, _click_safe)
    click_pc,           \* position in the click helper: "idle", "js", "native"
    click_call,         \* the call in progress: helper, element, script, attempts
    click_log,          \* history: the completed calls, with what each returned
    dismiss_count,      \* history: number of _dismiss_overlays invocations so far
    \* -- the element resolver (_find_element_multi_strategy, _find_clickable_by_text)
    driver_alive,       \* is_driver_alive()
    dom_matches,        \* DOM: per strategy, the elements it matches, in document order
    dom_vis,            \* DOM: per element, what is_displayed() gives
    find_which,         \* the resolver called
    find_pc,            \* position in the resolver: "call", "loop", "returned"
    find_s,             \* index of the strategy tried next
    find_result,        \* the element returned, NoElement for None
    find_dumped,        \* history: _debug_dump_page_info was invoked
    find_timeout,       \* the timeout argument of the resolver call, in seconds
    find_waits,         \* history: seconds spent waiting, per strategy tried
    \* -- one call of a NotebookLMClient operation
    client_op,          \* the operation called
    client_pc,          \* position in the operation; "returned" after its return
    client_result,      \* what the call returned: kind "None", "True", "False", "text"
    client_reports,     \* history: the actions _generate_error_report was invoked for
    client_trace,       \* history: the browser interactions of the call, in order
    message,            \* send_chat_message: the message argument
    divs,               \* DOM: the div elements of the chat search root, in document order
    \* -- the wait loops of navigate_to_notebooklm, upload_file_source, _manual_upload_fallback
    now,                \* time.time(), in seconds since the call
    start_time,         \* start_time of the loop in progress
    wait_timeout,       \* the timeout argument of upload_file_source
    waited,             \* the counter of the login wait
    iterations,         \* history: iterations of the loop in progress
    source_count,       \* DOM: the number of sources the notebook shows
    count_before,       \* history: source_count when the operation was called
    initial_sources,    \* initial_sources of _manual_upload_fallback
    \* -- one call of _generate_error_report
    report,             \* its argument and locals: error, page_url, the inventories, the paths
    report_failed,      \* history: the capture steps in which something raised
    \* -- one call of download_all_materials
    download_pc,        \* position in download_all_materials: "idle", "call", "loop", "returned"
    studio_materials,   \* what list_generated_materials returned
    download_results,   \* the results dict: total, downloaded, skipped, failed, items
    download_i,         \* index of the material handled next (1-based)
    download_calls,     \* history: the download_item calls, in order
    \* -- CollaborationProtocol: the shared state file and the agents calling claim_task
    state_file,         \* .agent_state.json: readable or not, and the tasks it holds
    agent_pc,           \* per agent, the position in claim_task
    agent_state,        \* per agent, the state it loaded (its tasks)
    agent_ret,          \* per agent, what claim_task returned
    \* -- chunked typing of add_text_source and add_source_text
    source_text,        \* the text argument
    typed,              \* history: the chunks sent to the input, in order
    chunk_start,        \* the loop variable i of the chunk loop
    typing_op,          \* the method typing the text
    typing_pc,          \* where that method is
    typing_ret,         \* what it returned
    \* -- the client's notebook
    current_notebook,   \* NotebookLMClient.current_notebook: None or the notebook's name
    \* -- a TaskQueue
    queue,              \* the TaskQueue object: tasks, pending, assigned, in_progress,
                        \* in_review, completed, failed
    next_task           \* what get_next_task_for_agent last returned, for the queue as it is

studioVars == <<checkboxes, selected, source_patterns, materials, sources, pc, i, j,
                results, all_results, generation_status, calls, steps>>
clickVars == <<click_pc, click_call, click_log, dismiss_count>>
findVars == <<driver_alive, dom_matches, dom_vis, find_which, find_pc, find_s,
              find_result, find_dumped, find_timeout, find_waits>>

clientVars == <<client_op, client_pc, client_result, client_reports, client_trace,
                message, divs>>
loopVars == <<now, start_time, wait_timeout, waited, iterations, source_count,
              count_before, initial_sources>>

reportVars == <<report, report_failed>>
downloadVars == <<download_pc, studio_materials, download_results, download_i,
                  download_calls>>
protocolVars == <<state_file, agent_pc, agent_state, agent_ret>>
typingVars == <<source_text, typed, chunk_start, typing_op, typing_pc, typing_ret>>
queueVars == <<queue, next_task>>
moreVars == <<downloadVars, protocolVars, typingVars, current_notebook, queueVars>>

vars == <<studioVars, clickVars, findVars, clientVars, loopVars, reportVars, moreVars>>

\* The resolver's variables other than the session's liveness.
findRest == <<dom_matches, dom_vis, find_which, find_pc, find_s, find_result,
              find_dumped, find_timeout, find_waits>>

\* What each part of the model leaves alone.
notStudio == <<clickVars, findVars, clientVars, loopVars, reportVars, moreVars>>
notClick == <<studioVars, findVars, clientVars, loopVars, reportVars, moreVars>>
notFind == <<studioVars, clickVars, clientVars, loopVars, reportVars, moreVars>>
notSession == <<studioVars, clickVars, findRest, reportVars, moreVars>>
notSessionNorNotebook == <<studioVars, clickVars, findRest, reportVars, downloadVars,
                          protocolVars, typingVars, queueVars>>
notClient == <<notSession, loopVars>>
notReport == <<studioVars, clickVars, findRest, loopVars, moreVars>>

\* ------------------------------------------------------------ data model
\* MaterialStatus (studio_automator.py:41-49); the timestamp is left out.
MaterialStatus(material_type, source_name) ==
    [material_type |-> material_type, source_name |-> source_name,
     started |-> FALSE, completed |-> FALSE, error |-> None]

\* SourceInfo (studio_automator.py:52-58) as list_sources builds it (253-259):
\* k is the checkbox's position in the document, enumerate's index is k - 1.
SourceInfo(aria, k) ==
    [name |-> aria,
     truncated_name |-> IF Len(aria) > TruncLen
                        THEN SubSeq(aria, 1, TruncLen) \o <<".", ".", ".">>
                        ELSE aria,
     index |-> k - 1,
     checkbox_element |-> k]

\* The positions of the source checkboxes (every checkbox but the select-all one).
SourcePositions(cbs) == {k \in 1..Len(cbs) : cbs[k].aria # SelectAllAria}

\* ------------------------------------------------------------ click helper
\* StudioAutomator._click_safe (studio_automator.py:127-144): a JS click, and on any
\* exception a native click; True when one of them went through.
_click_safe(element, jsOk, nativeOk) ==
    IF element = NoElement THEN FALSE
    ELSE IF jsOk THEN TRUE
    ELSE nativeOk

\* NotebookLMClient._click_element_safe (notebooklm.py:485-502): the same steps.
_click_element_safe(element, jsOk, nativeOk) ==
    IF element = NoElement THEN FALSE
    ELSE IF jsOk THEN TRUE
    ELSE nativeOk

\* --------------------------------------------------------- source listing
RECURSIVE ListFrom(_, _, _)
\* The loop of list_sources (248-259) over checkboxes k..upto.
ListFrom(cbs, k, upto) ==
    IF k > upto THEN <<>>
    ELSE LET aria == cbs[k].aria
             here == IF Contains(<<"a", "l", "l", "e">>, Lower(aria))
                        \/ Contains(<<"a", "l", "l">>, Lower(aria))
                     THEN <<>>
                     ELSE IF cbs[k].displayed THEN <<SourceInfo(aria, k)>>
                     ELSE <<>>
         IN  here \o ListFrom(cbs, k + 1, upto)

\* list_sources (230-266). An exception inside the try (a stale checkbox) ends the
\* loop and the sources collected so far are returned: upto is the number of
\* checkboxes examined, Len(cbs) when nothing raises.
list_sources(cbs, upto) == ListFrom(cbs, 1, upto)

RECURSIVE AppendOnFirstMatch_nobreak(_, _, _, _)
\* A variant of the inner loop without the break: one append per matching pattern.
AppendOnFirstMatch_nobreak(filtered, source, patterns, p) ==
    IF p > Len(patterns) THEN filtered
    ELSE AppendOnFirstMatch_nobreak(
             IF Contains(Lower(patterns[p]), Lower(source.name))
             THEN Append(filtered, source) ELSE filtered,
             source, patterns, p + 1)

RECURSIVE AppendOnFirstMatch(_, _, _, _)
\* process_all_sources 728-731: append the source at its first matching pattern, break.
AppendOnFirstMatch(filtered, source, patterns, p) ==
    IF p > Len(patterns) THEN filtered
    ELSE IF Contains(Lower(patterns[p]), Lower(source.name)) THEN Append(filtered, source)
    ELSE AppendOnFirstMatch(filtered, source, patterns, p + 1)

RECURSIVE FilterLoop(_, _, _, _)
\* process_all_sources 726-732
FilterLoop(filtered, srcs, patterns, k) ==
    IF k > Len(srcs) THEN filtered
    ELSE FilterLoop(AppendOnFirstMatch(filtered, srcs[k], patterns, 1), srcs, patterns, k + 1)

\* process_all_sources 725-733: `if source_patterns:` is false for None and for [].
FilterSources(srcs, patterns) ==
    IF ~patterns.given \/ patterns.list = <<>> THEN srcs
    ELSE FilterLoop(<<>>, srcs, patterns.list, 1)

\* -------------------------------------------------------- source selection
\* What a click on the select-all checkbox does in the page: it unchecks every
\* source when all are checked, and checks every source otherwise.
ClickSelectAll(sel, all) == IF sel = all THEN {} ELSE all

\* What a click on one source's checkbox does in the page: it toggles that source.
ClickSource(sel, k) == IF k \in sel THEN sel \ {k} ELSE sel \cup {k}

\* deselect_all_sources (268-304): the selection it leaves and what it returns.
\* found: the select-all checkbox was located (273-282) and reading its state did
\* not raise; c1, c2: whether its first and second _click_safe went through.
deselect_all_sources(sel, all, found, c1, c2) ==
    IF ~found THEN [selected |-> sel, ret |-> FALSE]
    ELSE IF sel = all
         THEN [selected |-> IF c1 THEN ClickSelectAll(sel, all) ELSE sel, ret |-> TRUE]
         ELSE LET s1 == IF c1 THEN ClickSelectAll(sel, all) ELSE sel
                  s2 == IF c2 THEN ClickSelectAll(s1, all) ELSE s1
              IN  [selected |-> s2, ret |-> TRUE]

RECURSIVE HasDigitOne(_)
\* `"1" in count` (316) for a displayed text "<n> Quelle(n)": a decimal digit of n is 1.
HasDigitOne(n) ==
    IF n % 10 = 1 THEN TRUE
    ELSE IF n < 10 THEN FALSE
    ELSE HasDigitOne(n \div 10)

\* select_source (306-328). With a checkbox handle (310-316): click it, then read the
\* count the page displays and answer whether it contains a "1". clicked: _click_safe
\* went through; shown: the page text had a count to read (get_sources_count_display
\* returns "unknown" otherwise). Without a handle (317-323): cb is what the aria-label
\* lookup found, and finding it is the answer.
select_source(source, sel, clicked, shown, cb) ==
    IF source.checkbox_element # NoElement
    THEN LET s1 == IF clicked THEN ClickSource(sel, source.checkbox_element) ELSE sel
         IN  [selected |-> s1,
              ret |-> IF ~shown THEN FALSE ELSE HasDigitOne(Cardinality(s1))]
    ELSE IF cb # NoElement
         THEN [selected |-> IF clicked THEN ClickSource(sel, cb) ELSE sel, ret |-> TRUE]
         ELSE [selected |-> sel, ret |-> FALSE]

\* ----------------------------------------------------- material generation
\* _select_english_language (343-407): True only when the language dropdown and the
\* English option were both found and nothing raised.
_select_english_language(dropdownFound, optionFound, raised) ==
    IF raised THEN FALSE
    ELSE IF ~dropdownFound THEN FALSE
    ELSE optionFound

\* _click_create_button (409-430): True when a create button was found (the result
\* of its _click_safe is not looked at).
_click_create_button(createFound, raised) ==
    IF raised THEN FALSE ELSE createFound

\* "Could not find <Label> button" (471, 507, 543, 570, 597, 624)
NotFoundError(t) ==
    CASE t = "audio" -> "Could not find Audio button"
      [] t = "video" -> "Could not find Video button"
      [] t = "mindmap" -> "Could not find Mindmap button"
      [] t = "quiz" -> "Could not find Quiz button"
      [] t = "flashcards" -> "Could not find Flashcards button"
      [] t = "infographic" -> "Could not find Infographic button"

\* A variant of GenerateWithLanguage that confirms first and sets the language after.
GenerateWithLanguage_CreateFirst(t, source_name, btn, clicked, langOk, createOk) ==
    LET status == MaterialStatus(t, source_name)
    IN  CASE btn = "none" ->
               [status |-> [status EXCEPT !.error = NotFoundError(t)],
                appended |-> FALSE, btn |-> btn,
                steps |-> <<"_find_button">>]
          [] btn = "raised" ->
               [status |-> [status EXCEPT !.error = "exception"],
                appended |-> TRUE, btn |-> btn,
                steps |-> <<"_find_button">>]
          [] btn = "found" ->
               [status |-> IF createOk
                           THEN [status EXCEPT !.started = TRUE]
                           ELSE [status EXCEPT !.error = "Could not click Create button"],
                appended |-> TRUE, btn |-> btn,
                steps |-> <<"_find_button", "_click_safe", "_click_create_button",
                            "_select_english_language">>]

\* generate_audio (450-494), generate_video (496-530), generate_infographic (613-647):
\* the result of one call. btn is what the button lookup gave: "found", "none", or
\* "raised" (only generate_audio's fallback lookup, 463-468, can raise).
\* clicked: what _click_safe on the button returned (not looked at: 475, 511, 628);
\* langOk, createOk: what _select_english_language and _click_create_button returned.
\* status: the MaterialStatus returned; appended: whether it was appended to
\* generation_status; btn: the lookup's result; steps: the helper calls made, in order.
GenerateWithLanguage(t, source_name, btn, clicked, langOk, createOk) ==
    LET status == MaterialStatus(t, source_name)
    IN  CASE btn = "none" ->
               [status |-> [status EXCEPT !.error = NotFoundError(t)],
                appended |-> FALSE, btn |-> btn,
                steps |-> <<"_find_button">>]
          [] btn = "raised" ->
               [status |-> [status EXCEPT !.error = "exception"],
                appended |-> TRUE, btn |-> btn,
                steps |-> <<"_find_button">>]
          [] btn = "found" ->
               [status |-> IF createOk
                           THEN [status EXCEPT !.started = TRUE]
                           ELSE [status EXCEPT !.error = "Could not click Create button"],
                appended |-> TRUE, btn |-> btn,
                steps |-> <<"_find_button", "_click_safe", "_select_english_language",
                            "_click_create_button">>]

\* A variant of GenerateImmediate that sets no error when the control is not found.
GenerateImmediate_silent(t, source_name, btnFound, clicked) ==
    LET status == MaterialStatus(t, source_name)
    IN  IF ~btnFound
        THEN [status |-> status,
              appended |-> FALSE, btn |-> "none",
              steps |-> <<"_find_button">>]
        ELSE [status |-> [status EXCEPT !.started = TRUE],
              appended |-> TRUE, btn |-> "found",
              steps |-> <<"_find_button", "_click_safe">>]

\* generate_mindmap (532-557), generate_quiz (559-584), generate_flashcards (586-611):
\* the result of one call; started is set after the click whatever it returned
\* (547-549, 574-576, 601-603).
GenerateImmediate(t, source_name, btnFound, clicked) ==
    LET status == MaterialStatus(t, source_name)
    IN  IF ~btnFound
        THEN [status |-> [status EXCEPT !.error = NotFoundError(t)],
              appended |-> FALSE, btn |-> "none",
              steps |-> <<"_find_button">>]
        ELSE [status |-> [status EXCEPT !.started = TRUE],
              appended |-> TRUE, btn |-> "found",
              steps |-> <<"_find_button", "_click_safe">>]

\* What the clicks of one generate_* call did: control, the _click_safe on the type's
\* control went through; language, _select_english_language returned True; confirm,
\* the _click_safe on the create button went through.
Clicks(control, language, confirm) ==
    [control |-> control, language |-> language, confirm |-> confirm]

\* No generate_* call made yet.
NoSteps ==
    [material_type |-> None, helpers |-> <<>>, clicks |-> Clicks(FALSE, FALSE, FALSE),
     status |-> MaterialStatus(None, <<>>)]

\* No click call in progress.
NoCall == [helper |-> None, element |-> NoElement, script |-> <<>>, attempts |-> 0,
           dismissed_before |-> 0]

\* ------------------------------------------------------------------ inputs
\* The source panel: the select-all checkbox, then up to MaxSources displayed
\* source checkboxes.
RECURSIVE NameLists(_)
NameLists(n) ==
    IF n = 0 THEN {<<>>}
    ELSE NameLists(n - 1)
         \cup {Append(l, nm) : l \in {x \in NameLists(n - 1) : Len(x) = n - 1}, nm \in SourceNames}

CheckboxLists ==
    {<<[aria |-> SelectAllAria, displayed |-> TRUE]>>
        \o [k \in 1..Len(l) |-> [aria |-> l[k], displayed |-> TRUE]] : l \in NameLists(MaxSources)}

\* Requested material types: runs of the enumeration, forwards or backwards, of up
\* to MaxMaterials types (the default, materials=None, is the whole enumeration).
RECURSIVE Reverse(_)
Reverse(l) == IF l = <<>> THEN <<>> ELSE Append(Reverse(Tail(l)), Head(l))

MaterialLists ==
    LET runs == {SubSeq(MaterialTypeList, a, b) :
                    a \in 1..Len(MaterialTypeList), b \in 0..Len(MaterialTypeList)}
        short == {r \in runs : Len(r) <= MaxMaterials}
    IN  short \cup {Reverse(r) : r \in short}

\* An optional list argument: Python's None, or a list.
NoList == [given |-> FALSE, list |-> <<>>]
List(l) == [given |-> TRUE, list |-> l]

\* source_patterns: None, or a list of patterns (matching is case-insensitive).
PatternLists ==
    {NoList, List(<<<<"l", "2">>>>)}

\* More of them: None, [], ["l2"], ["L", "2"] (which matches "L2" by both of its
\* patterns), ["2", "L2"] (which matches "L1" by none).
FilterPatternLists ==
    PatternLists \cup {List(<<>>), List(<<<<"L">>, <<"2">>>>),
                       List(<<<<"2">>, <<"L", "2">>>>)}

\* generate_all_materials_for_source 660-661
EffectiveMaterials == IF materials.given THEN materials.list ELSE MaterialTypeList

\* ------------------------------------------------------------------ Init
\* The click helper and the resolver at rest.
ClickIdle ==
    /\ click_pc = "idle"
    /\ click_call = NoCall
    /\ click_log = <<>>
    /\ dismiss_count = 0

\* A pending or returned result of a client operation.
Result(kind) == [kind |-> kind, text |-> <<>>, pass |-> None, cause |-> None]
TextResult(text, pass) == [kind |-> "text", text |-> text, pass |-> pass, cause |-> None]
\* A negative result and what led to it: "dead_session", "not_found", "exception",
\* "timeout", "miss".
Failure(kind, cause) == [kind |-> kind, text |-> <<>>, pass |-> None, cause |-> cause]

\* No client operation called.
ClientIdle ==
    /\ client_op = None
    /\ client_pc = "returned"
    /\ client_result = Result("None")
    /\ client_reports = <<>>
    /\ client_trace = <<>>
    /\ message = <<>>
    /\ divs = <<>>

\* The locals of _generate_error_report before anything is captured
\* (notebooklm.py:190-196).
NoReport(error) ==
    [error |-> error, page_url |-> FALSE, buttons_found |-> <<>>,
     textareas_found |-> <<>>, editables_found |-> <<>>,
     screenshot_path |-> None, html_path |-> None]

\* AgentType (agent_orchestrator.py:58-63)
AgentType == {"junie", "claude_code", "gemini", "human"}

\* The results dict of download_all_materials as it starts out (1093-1099).
NoDownloads == [total |-> 0, downloaded |-> 0, skipped |-> 0, failed |-> 0, items |-> <<>>]

\* No download in progress.
DownloadIdle ==
    /\ download_pc = "idle"
    /\ studio_materials = <<>>
    /\ download_results = NoDownloads
    /\ download_i = 1
    /\ download_calls = <<>>

\* No agent at work on the shared state.
ProtocolIdle ==
    /\ state_file = [readable |-> TRUE, tasks |-> <<>>]
    /\ agent_pc = [a \in AgentType |-> "idle"]
    /\ agent_state = [a \in AgentType |-> <<>>]
    /\ agent_ret = [a \in AgentType |-> None]

\* TaskQueue.__init__ (agent_orchestrator.py:203-210): no task, every collection empty.
EmptyQueue ==
    [tasks |-> <<>>, pending |-> <<>>, assigned |-> {}, in_progress |-> {},
     in_review |-> {}, completed |-> <<>>, failed |-> <<>>]

\* No answer of get_next_task_for_agent stands.
NoAnswer == [agent |-> None, task_id |-> None, by |-> None]

\* No task queue in use.
QueueIdle ==
    /\ queue = EmptyQueue
    /\ next_task = NoAnswer

\* No text being typed.
TypingIdle ==
    /\ source_text = <<>>
    /\ typed = <<>>
    /\ chunk_start = 0
    /\ typing_op = None
    /\ typing_pc = "idle"
    /\ typing_ret = None

\* No report being generated.
ReportIdle ==
    /\ report = NoReport(None)
    /\ report_failed = {}

\* No wait loop in progress.
LoopIdle ==
    /\ now = 0
    /\ start_time = 0
    /\ wait_timeout = 0
    /\ waited = 0
    /\ iterations = 0
    /\ source_count = 0
    /\ count_before = 0
    /\ initial_sources = 0

\* No resolver call.
FindRestIdle ==
    /\ dom_matches = <<>>
    /\ dom_vis = <<>>
    /\ find_which = None
    /\ find_pc = "returned"
    /\ find_s = 1
    /\ find_result = NoElement
    /\ find_dumped = FALSE
    /\ find_timeout = 0
    /\ find_waits = <<>>

FindIdle ==
    /\ driver_alive = TRUE
    /\ dom_matches = <<>>
    /\ dom_vis = <<>>
    /\ find_which = None
    /\ find_pc = "returned"
    /\ find_s = 1
    /\ find_result = NoElement
    /\ find_dumped = FALSE
    /\ find_timeout = 0
    /\ find_waits = <<>>

\* A call of process_all_sources with source_patterns and materials from the given
\* sets, on any source panel.
InitWorkflow(patternLists, materialLists) ==
    /\ ClickIdle
    /\ FindIdle
    /\ ClientIdle
    /\ LoopIdle
    /\ ReportIdle
    /\ DownloadIdle
    /\ ProtocolIdle
    /\ TypingIdle
    /\ current_notebook = None
    /\ QueueIdle
    /\ checkboxes \in CheckboxLists
    /\ selected \in SUBSET SourcePositions(checkboxes)
    /\ source_patterns \in patternLists
    /\ materials \in {List(l) : l \in materialLists}
    /\ Cardinality(SourcePositions(checkboxes)) * Len(materials.list) <= MaxAttempts
    /\ sources = <<>>
    /\ pc = "start"
    /\ i = 1
    /\ j = 1
    /\ results = <<>>
    /\ all_results = [name \in {} |-> <<>>]
    /\ generation_status = <<>>
    /\ calls = <<>>
    /\ steps = NoSteps

Init == InitWorkflow(PatternLists, MaterialLists)

\* Calls with any of the pattern lists, for at most one material type.
InitFilter == InitWorkflow(FilterPatternLists, {l \in MaterialLists : Len(l) <= 1})

\* --------------------------------------------------------------- actions
\* An entry of the history: operation op was invoked with arg for the source at
\* index src; outcome is what it met (a selection's result, a button lookup's result).
Call(op, src, arg, outcome) == [op |-> op, src |-> src, arg |-> arg, outcome |-> outcome]

\* Some located element (a button, the select-all checkbox).
AnElement == 1

\* What the helpers can return, over everything the page can do to them.
ClickResults(element) == {_click_safe(element, js, native) : js \in BOOLEAN, native \in BOOLEAN}
LanguageResults ==
    {_select_english_language(dd, opt, raised) :
        dd \in BOOLEAN, opt \in BOOLEAN, raised \in BOOLEAN}
CreateResults == {_click_create_button(created, raised) : created \in BOOLEAN, raised \in BOOLEAN}

\* The `for` of process_all_sources (736) moves to the next source, or returns (762).
NextSource(n) == IF i + 1 <= n THEN "deselect" ELSE "done"

\* process_all_sources 713-733: list the sources, return when there are none, filter.
process_all_sources_list ==
    /\ pc = "start"
    /\ \E upto \in 0..Len(checkboxes) :
         LET listed == list_sources(checkboxes, upto)
             filtered == IF listed = <<>> THEN <<>>
                         ELSE FilterSources(listed, source_patterns)
         IN  /\ sources' = filtered
             /\ pc' = IF filtered = <<>> THEN "done" ELSE "deselect"
    /\ i' = 1
    /\ UNCHANGED <<checkboxes, selected, source_patterns, materials, j, results,
                   all_results, generation_status, calls, steps>>
    /\ UNCHANGED notStudio

\* process_all_sources 741-743, step 1: deselect all (the result is not looked at).
process_all_sources_deselect ==
    /\ pc = "deselect"
    /\ \E found \in BOOLEAN, c1 \in ClickResults(AnElement), c2 \in ClickResults(AnElement) :
         selected' = deselect_all_sources(selected, SourcePositions(checkboxes),
                                          found, c1, c2).selected
    /\ calls' = Append(calls, Call("deselect_all_sources", i, "step1", "-"))
    /\ pc' = "select"
    /\ UNCHANGED <<checkboxes, source_patterns, materials, sources, i, j, results,
                   all_results, generation_status, steps>>
    /\ UNCHANGED notStudio

\* A variant of step 2 that leaves the loop when the selection fails.
process_all_sources_select_break ==
    /\ pc = "select"
    /\ \E clicked \in ClickResults(sources[i].checkbox_element), shown \in BOOLEAN :
         LET r == select_source(sources[i], selected, clicked, shown, NoElement)
         IN  /\ selected' = r.selected
             /\ calls' = Append(calls, Call("select_source", i, "-",
                                            IF r.ret THEN "selected" ELSE "failed"))
             /\ pc' = IF r.ret THEN "generate_all" ELSE "done"
             /\ i' = i
    /\ UNCHANGED <<checkboxes, source_patterns, materials, sources, j, results,
                   all_results, generation_status, steps>>
    /\ UNCHANGED notStudio

\* process_all_sources 745-748, step 2: select this source; on failure `continue`.
process_all_sources_select ==
    /\ pc = "select"
    /\ \E clicked \in ClickResults(sources[i].checkbox_element), shown \in BOOLEAN :
         LET r == select_source(sources[i], selected, clicked, shown, NoElement)
         IN  /\ selected' = r.selected
             /\ calls' = Append(calls, Call("select_source", i, "-",
                                            IF r.ret THEN "selected" ELSE "failed"))
             /\ IF r.ret
                THEN /\ pc' = "generate_all"
                     /\ i' = i
                ELSE /\ pc' = NextSource(Len(sources))
                     /\ i' = i + 1
    /\ UNCHANGED <<checkboxes, source_patterns, materials, sources, j, results,
                   all_results, generation_status, steps>>
    /\ UNCHANGED notStudio

\* A variant of generate_all_materials_for_source that keeps the previous source's
\* result list instead of starting an empty one.
generate_all_materials_for_source_keep ==
    /\ pc = "generate_all"
    /\ results' = results
    /\ j' = 1
    /\ pc' = IF EffectiveMaterials = <<>> THEN "cleanup" ELSE "generate"
    /\ UNCHANGED <<checkboxes, selected, source_patterns, materials, sources, i,
                   all_results, generation_status, calls, steps>>
    /\ UNCHANGED notStudio

\* generate_all_materials_for_source 660-672: open the Studio panel (its result is
\* not looked at) and start the loop over the material types.
generate_all_materials_for_source ==
    /\ pc = "generate_all"
    /\ results' = <<>>
    /\ j' = 1
    /\ pc' = IF EffectiveMaterials = <<>> THEN "cleanup" ELSE "generate"
    /\ UNCHANGED <<checkboxes, selected, source_patterns, materials, sources, i,
                   all_results, generation_status, calls, steps>>
    /\ UNCHANGED notStudio

\* One round of the loop of generate_all_materials_for_source (675-694) whose
\* generate_* call gave r, its clicks having done what clicks says.
GenerateRound(t, r, clicks) ==
    /\ results' = Append(results, r.status)
    /\ generation_status' = IF r.appended THEN Append(generation_status, r.status)
                            ELSE generation_status
    /\ steps' = [material_type |-> t, helpers |-> r.steps, clicks |-> clicks,
                 status |-> r.status]
    /\ calls' = Append(calls, Call("generate", i, t, r.btn))
    /\ j' = j + 1
    /\ pc' = IF j + 1 <= Len(EffectiveMaterials) THEN "generate" ELSE "cleanup"
    /\ UNCHANGED <<checkboxes, selected, source_patterns, materials, sources, i, all_results>>
    /\ UNCHANGED notStudio

\* The clicks of a generate_audio, generate_video or generate_infographic call: none
\* without the type's control; the create button is clicked by _click_create_button
\* (409-430) when it is found and the lookup did not raise.
LanguageClicks(btn, clicked, langOk, created, raised, confirmed) ==
    IF btn = "found"
    THEN Clicks(clicked, langOk, created /\ ~raised /\ confirmed)
    ELSE Clicks(FALSE, FALSE, FALSE)

CurrentType == EffectiveMaterials[j]
CurrentName == sources[i].truncated_name

generate_audio ==
    /\ pc = "generate" /\ CurrentType = "audio"
    /\ \E btn \in {"found", "none", "raised"}, clicked \in ClickResults(AnElement),
          langOk \in LanguageResults, created \in BOOLEAN, raised \in BOOLEAN,
          confirmed \in ClickResults(AnElement) :
         GenerateRound("audio",
            GenerateWithLanguage("audio", CurrentName, btn, clicked, langOk,
                                 _click_create_button(created, raised)),
            LanguageClicks(btn, clicked, langOk, created, raised, confirmed))

generate_video ==
    /\ pc = "generate" /\ CurrentType = "video"
    /\ \E btn \in {"found", "none"}, clicked \in ClickResults(AnElement),
          langOk \in LanguageResults, created \in BOOLEAN, raised \in BOOLEAN,
          confirmed \in ClickResults(AnElement) :
         GenerateRound("video",
            GenerateWithLanguage("video", CurrentName, btn, clicked, langOk,
                                 _click_create_button(created, raised)),
            LanguageClicks(btn, clicked, langOk, created, raised, confirmed))

generate_mindmap ==
    /\ pc = "generate" /\ CurrentType = "mindmap"
    /\ \E found \in BOOLEAN, clicked \in ClickResults(AnElement) :
         GenerateRound("mindmap", GenerateImmediate("mindmap", CurrentName, found, clicked),
                       Clicks(found /\ clicked, FALSE, FALSE))

generate_quiz ==
    /\ pc = "generate" /\ CurrentType = "quiz"
    /\ \E found \in BOOLEAN, clicked \in ClickResults(AnElement) :
         GenerateRound("quiz", GenerateImmediate("quiz", CurrentName, found, clicked),
                       Clicks(found /\ clicked, FALSE, FALSE))

generate_flashcards ==
    /\ pc = "generate" /\ CurrentType = "flashcards"
    /\ \E found \in BOOLEAN, clicked \in ClickResults(AnElement) :
         GenerateRound("flashcards", GenerateImmediate("flashcards", CurrentName, found, clicked),
                       Clicks(found /\ clicked, FALSE, FALSE))

generate_infographic ==
    /\ pc = "generate" /\ CurrentType = "infographic"
    /\ \E btn \in {"found", "none"}, clicked \in ClickResults(AnElement),
          langOk \in LanguageResults, created \in BOOLEAN, raised \in BOOLEAN,
          confirmed \in ClickResults(AnElement) :
         GenerateRound("infographic",
            GenerateWithLanguage("infographic", CurrentName, btn, clicked, langOk,
                                 _click_create_button(created, raised)),
            LanguageClicks(btn, clicked, langOk, created, raised, confirmed))

\* all_results[source.name] = results (752)
StoreResults(map, name, value) ==
    [k \in (DOMAIN map) \cup {name} |-> IF k = name THEN value ELSE map[k]]

\* process_all_sources 751-760: record the source's results, step 4: deselect all.
process_all_sources_cleanup ==
    /\ pc = "cleanup"
    /\ all_results' = StoreResults(all_results, sources[i].name, results)
    /\ \E found \in BOOLEAN, c1 \in ClickResults(AnElement), c2 \in ClickResults(AnElement) :
         selected' = deselect_all_sources(selected, SourcePositions(checkboxes),
                                          found, c1, c2).selected
    /\ calls' = Append(calls, Call("deselect_all_sources", i, "step4", "-"))
    /\ pc' = NextSource(Len(sources))
    /\ i' = i + 1
    /\ UNCHANGED <<checkboxes, source_patterns, materials, sources, j, results,
                   generation_status, steps>>
    /\ UNCHANGED notStudio

Next ==
    \/ process_all_sources_list
    \/ process_all_sources_deselect
    \/ process_all_sources_select
    \/ generate_all_materials_for_source
    \/ generate_audio
    \/ generate_video
    \/ generate_mindmap
    \/ generate_quiz
    \/ generate_flashcards
    \/ generate_infographic
    \/ process_all_sources_cleanup

Spec == Init /\ [][Next]_vars

SpecFilter == InitFilter /\ [][Next]_vars

\* ================================================================ claims
\* Reading the history.
CallsFor(k) == SelectSeq(calls, LAMBDA c : c.src = k)
GenerateCalls == SelectSeq(calls, LAMBDA c : c.op = "generate")
SelectCalls == SelectSeq(calls, LAMBDA c : c.op = "select_source")
Requested == EffectiveMaterials

\* Source k got its deselect-all and its select, and, unless its own selection
\* failed, every requested material type in order and the closing deselect-all.
SourceAttempted(k) ==
    LET cs == CallsFor(k)
    IN  /\ Len(cs) >= 2
        /\ cs[1].op = "deselect_all_sources"
        /\ cs[2].op = "select_source"
        /\ cs[2].outcome = "selected" =>
             /\ Len(cs) = Len(Requested) + 3
             /\ \A m \in 1..Len(Requested) :
                  cs[2 + m].op = "generate" /\ cs[2 + m].arg = Requested[m]
             /\ cs[Len(cs)].op = "deselect_all_sources"

\* C1: process_all_sources never aborts the batch. The sources are worked on in list
\* order; every source before the current one was attempted (deselect-all, select and,
\* when its own selection succeeded, all requested types), whatever failed before it;
\* and the run returns only after the last filtered source.
C1_NeverAbortsBatch ==
    /\ \A a, b \in 1..Len(calls) : a < b => calls[a].src <= calls[b].src
    /\ \A k \in 1..Len(sources) : k < i => SourceAttempted(k)
    /\ pc = "done" => i = Len(sources) + 1

\* C1 witness: the run returned after two sources; selecting the first failed, and the
\* second still got its deselect-all, its select and both requested types, of which
\* the first was not started.
C1_Witness ==
    /\ pc = "done"
    /\ Len(sources) = 2
    /\ Len(Requested) = 2
    /\ CallsFor(1)[2].outcome = "failed"
    /\ CallsFor(2)[2].outcome = "selected"
    /\ Len(CallsFor(2)) = 5
    /\ ~all_results[sources[2].name][1].started

\* The name contains at least one of the patterns, letter case aside.
MatchesSomePattern(name, patterns) ==
    \E p \in 1..Len(patterns) : Contains(Lower(patterns[p]), Lower(name))

\* The sources that list_sources gave can be read back from the page: the displayed
\* source checkboxes up to where the listing stopped.
Listings == {list_sources(checkboxes, upto) : upto \in 0..Len(checkboxes)}

\* C21: with a non-empty list of patterns process_all_sources works on exactly the
\* listed sources whose name contains at least one pattern as a case-insensitive
\* substring, each once and in the listing's order; with None or an empty list it
\* works on all listed sources; and each source worked on gets the same steps as
\* without a filter, in the order of the filtered list.
C21_FilterKeepsExactlyTheMatches ==
    pc # "start" =>
        /\ \E listed \in Listings :
             sources = IF source_patterns.given /\ source_patterns.list # <<>>
                       THEN SelectSeq(listed,
                                LAMBDA src : MatchesSomePattern(src.name, source_patterns.list))
                       ELSE listed
        /\ \A a, b \in 1..Len(sources) :
             a < b => sources[a].checkbox_element < sources[b].checkbox_element
        /\ \A k \in 1..Len(SelectCalls) : SelectCalls[k].src = k
        /\ pc = "done" =>
             /\ Len(SelectCalls) = Len(sources)
             /\ \A k \in 1..Len(sources) : SourceAttempted(k)

\* C21 witness: with the patterns "L" and "2" the sources L1 and L2 were both worked
\* on, L2 (matched by both patterns) once.
C21_Witness ==
    /\ pc = "done"
    /\ source_patterns = List(<<<<"L">>, <<"2">>>>)
    /\ Len(sources) = 2
    /\ sources[2].name = <<"L", "2">>
    /\ Len(SelectCalls) = 2

\* With the patterns "2" and "L2" only L2 of L1, L2 was worked on.
FilterLeavesOut ==
    /\ pc = "done"
    /\ source_patterns = List(<<<<"2">>, <<"L", "2">>>>)
    /\ Len(checkboxes) = 3
    /\ Len(sources) = 1
    /\ sources[1].name = <<"L", "2">>
    /\ sources[1].index = 2
    /\ Len(SelectCalls) = 1

\* The selection operations of the run, in order.
SelectionCalls ==
    SelectSeq(calls, LAMBDA c : c.op \in {"deselect_all_sources", "select_source"})

\* C24: per source the workflow goes deselect-all, select-one, generation steps,
\* deselect-all; so when process_all_sources returns after attempting at least one
\* source, the last selection operation it performed was a deselect-all, also when
\* the selection of the last source failed.
C24_EndsWithDeselectAll ==
    (pc = "done" /\ SelectionCalls # <<>>) =>
        SelectionCalls[Len(SelectionCalls)].op = "deselect_all_sources"

\* What does hold: the run ends with a deselect-all unless the last source's own
\* selection failed (the `continue` at 748 skips step 4).
EndsWithDeselectAllUnlessSelectFailed ==
    (pc = "done" /\ SelectionCalls # <<>>) =>
        LET last == SelectionCalls[Len(SelectionCalls)]
        IN  \/ last.op = "deselect_all_sources"
            \/ last.op = "select_source" /\ last.outcome = "failed"
                  /\ last.src = Len(sources)

\* C2: when process_all_sources returns, the result map has an entry for every source
\* that passed the filter, also for sources for which something failed.
C2_EntryForEveryFilteredSource ==
    pc = "done" => \A k \in 1..Len(sources) : sources[k].name \in DOMAIN all_results

RECURSIVE SumOfLengths(_, _)
SumOfLengths(map, keys) ==
    IF keys = {} THEN 0
    ELSE LET k == CHOOSE x \in keys : TRUE
         IN  Len(map[k]) + SumOfLengths(map, keys \ {k})

\* C3: every generate_* invocation appends exactly one MaterialStatus to
\* generation_status, started or failed; so when the run returns the log is as long as
\* the number of statuses in the returned map.
C3_OneLogEntryPerAttempt ==
    /\ Len(generation_status) = Len(GenerateCalls)
    /\ pc = "done" =>
         Len(generation_status) = SumOfLengths(all_results, DOMAIN all_results)

\* C4: whenever a generate_* step is about to be invoked for a source, exactly one
\* source is selected in the page and it is that source.
C4_ExactlyThisSourceSelected ==
    pc = "generate" => selected = {sources[i].checkbox_element}

\* Position of the first x in a sequence, 0 when absent.
IndexOf(seq, x) ==
    IF \E k \in 1..Len(seq) : seq[k] = x
    THEN CHOOSE k \in 1..Len(seq) : seq[k] = x /\ \A m \in 1..(k - 1) : seq[m] # x
    ELSE 0

\* C5: for audio, video and infographic the language-selection step comes after the
\* type's control is opened and before the confirm step; for mindmap, quiz and
\* flashcards neither the language step nor the confirm step is invoked. The two groups
\* are disjoint and cover MaterialType.
C5_LanguageStepOrder ==
    LET h == steps.helpers
        opened == IndexOf(h, "_click_safe")
        lang == IndexOf(h, "_select_english_language")
        confirm == IndexOf(h, "_click_create_button")
    IN  /\ LANGUAGE_REQUIRED \cap IMMEDIATE_GENERATION = {}
        /\ LANGUAGE_REQUIRED \cup IMMEDIATE_GENERATION = MaterialType
        /\ steps.material_type \in LANGUAGE_REQUIRED =>
             /\ opened > 0 => (lang > opened /\ confirm > lang)
             /\ opened = 0 => (lang = 0 /\ confirm = 0)
        /\ steps.material_type \in IMMEDIATE_GENERATION => (lang = 0 /\ confirm = 0)

\* C5 witness: an infographic attempt went through open, language, confirm after a
\* quiz attempt for the same source that opened its control.
C5_Witness ==
    /\ steps.material_type = "infographic"
    /\ steps.helpers = <<"_find_button", "_click_safe", "_select_english_language",
                         "_click_create_button">>
    /\ Len(results) = 2
    /\ results[1].material_type = "flashcards"
    /\ results[1].started

\* The case of C6: the run returned, the processed sources have distinct names, only
\* immediate types were requested, every selection and every button lookup succeeded.
C6_Case ==
    /\ pc = "done"
    /\ sources # <<>>
    /\ \A a, b \in 1..Len(sources) : a # b => sources[a].name # sources[b].name
    /\ \A m \in 1..Len(Requested) : Requested[m] \in IMMEDIATE_GENERATION
    /\ \A c \in 1..Len(SelectCalls) : SelectCalls[c].outcome = "selected"
    /\ \A c \in 1..Len(GenerateCalls) : GenerateCalls[c].outcome = "found"

\* C6: end to end, in that case the returned map has exactly one key per source, each
\* mapped to one MaterialStatus per requested type, in the requested order, all with
\* started=True and error=None.
C6_EndToEnd ==
    C6_Case =>
        /\ DOMAIN all_results = {sources[k].name : k \in 1..Len(sources)}
        /\ Cardinality(DOMAIN all_results) = Len(sources)
        /\ \A k \in 1..Len(sources) :
             LET got == all_results[sources[k].name]
             IN  /\ Len(got) = Len(Requested)
                 /\ \A m \in 1..Len(Requested) :
                      got[m] = [MaterialStatus(Requested[m], sources[k].truncated_name)
                                    EXCEPT !.started = TRUE]

\* C6 witness: Lecture1, Lecture2 with QUIZ, FLASHCARDS, everything found.
C6_Witness ==
    /\ C6_Case
    /\ Len(sources) = 2
    /\ Requested = <<"quiz", "flashcards">>

\* A generate_* call was made; steps holds what it did and what it returned.
Generated == steps.material_type # None

\* C25: for mindmap, quiz and flashcards a MaterialStatus has started=True only if the
\* click on the type's control went through; a click that fails with both click
\* methods does not give started=True.
C25_StartedOnlyAfterSuccessfulClick ==
    (steps.material_type \in IMMEDIATE_GENERATION /\ steps.status.started) =>
        steps.clicks.control

\* What does hold: for these types started=True exactly when the control was found.
ImmediateStartedWhenControlFound ==
    steps.material_type \in IMMEDIATE_GENERATION =>
        (steps.status.started <=> IndexOf(steps.helpers, "_click_safe") > 0)

\* C26: for audio, video and infographic a failed language selection never fails the
\* attempt: once the type's control was found, the confirm step is attempted whatever
\* _select_english_language returned, and the status has started=True exactly when the
\* click on the create button went through.
C26_LanguageFailureNeverFails ==
    (steps.material_type \in LANGUAGE_REQUIRED
       /\ IndexOf(steps.helpers, "_click_safe") > 0) =>
        /\ IndexOf(steps.helpers, "_click_create_button") > 0
        /\ steps.status.started <=> steps.clicks.confirm

\* What does hold: the confirm step is attempted whatever the language selection
\* returned, and a confirm click that went through gives started=True.
ConfirmAttemptedWhateverLanguage ==
    (steps.material_type \in LANGUAGE_REQUIRED
       /\ IndexOf(steps.helpers, "_click_safe") > 0) =>
        /\ IndexOf(steps.helpers, "_click_create_button") > 0
        /\ steps.clicks.confirm => steps.status.started

\* The language selection failed and the attempt was started all the same.
StartedWithoutLanguage ==
    /\ steps.material_type \in LANGUAGE_REQUIRED
    /\ ~steps.clicks.language
    /\ steps.clicks.confirm
    /\ steps.status.started

\* started and error of one MaterialStatus: one of them is set, not both.
OneOfStartedAndError(status) ==
    /\ status.started => status.error = None
    /\ ~status.started => (status.error # None /\ status.error # "")

\* C27: every MaterialStatus returned by a generate_* operation has exactly one of
\* started=True and error set: started=True implies error is None, started=False
\* implies a non-empty error text; (started=False, error=None) is never returned.
C27_ExactlyOneOfStartedAndError ==
    /\ Generated => OneOfStartedAndError(steps.status)
    /\ \A k \in 1..Len(results) : OneOfStartedAndError(results[k])
    /\ \A k \in 1..Len(generation_status) : OneOfStartedAndError(generation_status[k])

\* C27 witness: of the two statuses returned for a source, the first has an error and
\* is not started, the second is started.
C27_Witness ==
    /\ Len(results) = 2
    /\ ~results[1].started /\ results[1].error = NotFoundError(results[1].material_type)
    /\ results[2].started /\ results[2].error = None
    /\ steps.status = results[2]

\* ============================================================ click helper
\* What the page does to one click attempt: it goes through, another element
\* receives it (ElementClickInterceptedException), or the element is gone
\* (StaleElementReferenceException).
AttemptOutcomes == {"ok", "intercepted", "stale"}

\* What the page will do to the first (JS) and to the second (native) attempt.
ClickScripts == {<<first, second>> : first \in AttemptOutcomes, second \in AttemptOutcomes}

ClickHelpers == {"_click_element_safe", "_click_safe"}

\* The workflow at rest.
StudioIdle ==
    /\ checkboxes = <<>>
    /\ selected = {}
    /\ source_patterns = NoList
    /\ materials = NoList
    /\ sources = <<>>
    /\ pc = "done"
    /\ i = 1
    /\ j = 1
    /\ results = <<>>
    /\ all_results = [name \in {} |-> <<>>]
    /\ generation_status = <<>>
    /\ calls = <<>>
    /\ steps = NoSteps

InitClick ==
    /\ StudioIdle /\ FindIdle /\ ClientIdle /\ LoopIdle /\ ReportIdle /\ ClickIdle
    /\ DownloadIdle /\ ProtocolIdle /\ TypingIdle
    /\ current_notebook = None
    /\ QueueIdle

\* What the helper of the call returns for the call's script.
ClickReturn(call) ==
    LET jsOk == call.script[1] = "ok"
        nativeOk == call.script[2] = "ok"
        ok == IF call.helper = "_click_safe"
              THEN _click_safe(call.element, jsOk, nativeOk)
              ELSE _click_element_safe(call.element, jsOk, nativeOk)
    IN  IF ok THEN "True" ELSE "False"

\* The helper returns: the completed call goes to the history.
ClickReturns(call) ==
    /\ click_log' = Append(click_log,
                           [helper |-> call.helper, element |-> call.element,
                            script |-> call.script, attempts |-> call.attempts,
                            dismissals |-> dismiss_count - call.dismissed_before,
                            result |-> ClickReturn(call)])
    /\ click_call' = NoCall
    /\ click_pc' = "idle"

\* Entry of a click helper (notebooklm.py:487-488, studio_automator.py:129-130):
\* without an element it returns False at once.
click_enter ==
    /\ click_pc = "idle"
    /\ Len(click_log) < MaxClicks
    /\ \E helper \in ClickHelpers, element \in {NoElement, AnElement}, script \in ClickScripts :
         LET call == [helper |-> helper, element |-> element, script |-> script,
                      attempts |-> 0, dismissed_before |-> dismiss_count]
         IN  IF element = NoElement
             THEN ClickReturns(call)
             ELSE /\ click_call' = call
                  /\ click_pc' = "js"
                  /\ click_log' = click_log
    /\ UNCHANGED dismiss_count
    /\ UNCHANGED notClick

\* First attempt (489-495, 131-137): scroll into view and click by script; return
\* True when that went through, otherwise go on to the except branch.
click_js_attempt ==
    /\ click_pc = "js"
    /\ LET call == [click_call EXCEPT !.attempts = @ + 1]
       IN  IF call.script[1] = "ok"
           THEN ClickReturns(call)
           ELSE /\ click_call' = call
                /\ click_pc' = "native"
                /\ click_log' = click_log
    /\ UNCHANGED dismiss_count
    /\ UNCHANGED notClick

\* A variant of the second attempt that tries again when the click fails.
click_native_attempt_retry ==
    /\ click_pc = "native"
    /\ LET call == [click_call EXCEPT !.attempts = @ + 1]
       IN  IF call.script[2] = "ok"
           THEN ClickReturns(call)
           ELSE /\ click_call' = call
                /\ click_pc' = "native"
                /\ click_log' = click_log
    /\ UNCHANGED dismiss_count
    /\ UNCHANGED notClick

\* Second attempt (496-502, 138-144): the native click; True when it went through,
\* otherwise the error is logged and False is returned.
click_native_attempt ==
    /\ click_pc = "native"
    /\ ClickReturns([click_call EXCEPT !.attempts = @ + 1])
    /\ UNCHANGED dismiss_count
    /\ UNCHANGED notClick

\* _dismiss_overlays (notebooklm.py:610-634), invoked by the navigation and upload
\* code (553, 599, 651, 1253), never by a click helper: it clicks the first dismiss
\* button it finds (a call of _click_element_safe of its own, not looked at) and
\* presses Escape.
_dismiss_overlays ==
    /\ click_pc = "idle"
    /\ dismiss_count < MaxClicks
    /\ dismiss_count' = dismiss_count + 1
    /\ UNCHANGED <<click_pc, click_call, click_log>>
    /\ UNCHANGED notClick

NextClick ==
    \/ click_enter
    \/ click_js_attempt
    \/ click_native_attempt
    \/ _dismiss_overlays

SpecClick == InitClick /\ [][NextClick]_vars

\* The completed click calls whose first attempt was intercepted and whose retry
\* went through.
InterceptedThenOk(c) == c.element # NoElement /\ c.script = <<"intercepted", "ok">>

\* The completed click calls whose every attempt failed.
EveryAttemptFailed(c) ==
    c.element # NoElement /\ c.script[1] # "ok" /\ c.script[2] # "ok"

\* C7 as claimed: a click whose first attempt is intercepted and whose retry succeeds
\* returns success, and overlay dismissal was invoked exactly once during the click.
C7_DismissedExactlyOnce ==
    \A n \in 1..Len(click_log) :
        InterceptedThenOk(click_log[n]) =>
            click_log[n].result = "True" /\ click_log[n].dismissals = 1

\* What the helpers do in that case: the click returns True after exactly two
\* attempts, and overlay dismissal is not invoked during the click.
RetrySucceedsWithoutDismissal ==
    \A n \in 1..Len(click_log) :
        InterceptedThenOk(click_log[n]) =>
            /\ click_log[n].result = "True"
            /\ click_log[n].attempts = 2
            /\ click_log[n].dismissals = 0

\* Both helpers completed such a click, with an overlay dismissal between the two
\* calls.
InterceptedThenOkTwice ==
    /\ Len(click_log) = 2
    /\ InterceptedThenOk(click_log[1]) /\ click_log[1].helper = "_click_element_safe"
    /\ InterceptedThenOk(click_log[2]) /\ click_log[2].helper = "_click_safe"
    /\ dismiss_count = 1

\* C8 as claimed: a click whose every attempt fails raises a typed InteractionFailure
\* to its caller and does not return normally.
C8_RaisesInteractionFailure ==
    \A n \in 1..Len(click_log) :
        EveryAttemptFailed(click_log[n]) => click_log[n].result = "InteractionFailure"

\* What the helpers do in that case: the click returns False to its caller after
\* exactly two attempts.
EveryAttemptFailedReturnsFalse ==
    \A n \in 1..Len(click_log) :
        EveryAttemptFailed(click_log[n]) =>
            click_log[n].result = "False" /\ click_log[n].attempts = 2

\* Both helpers completed a click that was intercepted on each attempt.
InterceptedTwiceTwice ==
    /\ Len(click_log) = 2
    /\ click_log[1].helper = "_click_element_safe"
    /\ click_log[2].helper = "_click_safe"
    /\ \A n \in 1..2 :
         click_log[n].element # NoElement
         /\ click_log[n].script = <<"intercepted", "intercepted">>

\* A helper that was called runs its steps until it returns.
SpecClickFair ==
    InitClick /\ [][NextClick]_vars /\ WF_vars(click_js_attempt \/ click_native_attempt)

\* C28: one call of a click helper (_click_element_safe, _click_safe) makes at most
\* two click attempts and always returns to its caller: a click that keeps failing
\* is not retried without bound.
C28_AtMostTwoAttemptsThenReturns ==
    /\ [](click_call.attempts <= 2
           /\ \A n \in 1..Len(click_log) : click_log[n].attempts <= 2)
    /\ (click_pc # "idle") ~> (click_pc = "idle")

\* C28 witness: a call whose two attempts failed, one intercepted and one on a stale
\* element, has returned False after exactly two attempts.
C28_Witness ==
    /\ click_pc = "idle"
    /\ \E n \in 1..Len(click_log) :
         /\ click_log[n].script = <<"intercepted", "stale">>
         /\ click_log[n].attempts = 2
         /\ click_log[n].result = "False"

\* ============================================================ element resolver
Resolvers == {"_find_element_multi_strategy", "_find_clickable_by_text"}

\* The elements of the page, numbered in document order.
Elements == 1..MaxElements

\* What is_displayed() does on an element: True, False, or it raises because the
\* reference is stale.
Visibilities == {"visible", "hidden", "stale"}

\* The elements one lookup can match: any of the page's elements, in document order.
RECURSIVE MatchListsUpTo(_)
MatchListsUpTo(n) ==
    IF n = 0 THEN {<<>>}
    ELSE MatchListsUpTo(n - 1) \cup {Append(m, n) : m \in MatchListsUpTo(n - 1)}

MatchLists == MatchListsUpTo(MaxElements)

\* The pages: for each of n strategies, in catalog order, the elements it matches.
RECURSIVE DomsOfLen(_)
DomsOfLen(n) ==
    IF n = 0 THEN {<<>>}
    ELSE {Append(d, m) : d \in DomsOfLen(n - 1), m \in MatchLists}

\* With a dead session no lookup matches anything.
RECURSIVE NoMatches(_)
NoMatches(n) == IF n = 0 THEN <<>> ELSE Append(NoMatches(n - 1), <<>>)

\* The element resolver is called: an unknown catalog key has no strategies, the text
\* lookup always has its XPath patterns (notebooklm.py:336-357).
InitResolve ==
    /\ StudioIdle
    /\ ClickIdle
    /\ ClientIdle
    /\ LoopIdle
    /\ ReportIdle
    /\ DownloadIdle
    /\ ProtocolIdle
    /\ TypingIdle
    /\ current_notebook = None
    /\ QueueIdle
    /\ driver_alive \in BOOLEAN
    /\ find_which \in Resolvers
    /\ \E n \in 0..MaxStrategies :
         /\ find_which = "_find_clickable_by_text" => n >= 1
         /\ dom_matches \in (IF driver_alive THEN DomsOfLen(n) ELSE {NoMatches(n)})
    /\ dom_vis \in [Elements -> Visibilities]
    /\ find_pc = "call"
    /\ find_s = 1
    /\ find_result = NoElement
    /\ find_dumped = FALSE
    /\ find_timeout \in 0..MaxTimeout
    /\ find_waits = <<>>

\* The resolver returns.
FindReturns(element) ==
    /\ find_result' = element
    /\ find_pc' = "returned"

\* is_driver_alive and the strategies of the key (notebooklm.py:301-308, 332-333):
\* None for a dead session and for a key without strategies.
resolver_enter ==
    /\ find_pc = "call"
    /\ IF ~driver_alive
           \/ (find_which = "_find_element_multi_strategy" /\ Len(dom_matches) = 0)
       THEN FindReturns(NoElement)
       ELSE find_pc' = "loop" /\ find_result' = find_result
    /\ UNCHANGED <<driver_alive, dom_matches, dom_vis, find_which, find_s, find_dumped,
                 find_timeout, find_waits>>
    /\ UNCHANGED notFind

\* One strategy of _find_element_multi_strategy (notebooklm.py:313-324):
\* presence_of_element_located gives the FIRST element the selector matches, or
\* times out; the element is returned when it is displayed; a timeout, a hidden
\* element and any exception go on to the next strategy.
TryStrategy(matched, vis) ==
    IF matched = <<>> THEN NoElement
    ELSE IF vis[matched[1]] = "visible" THEN matched[1]
    ELSE NoElement

\* A variant of the split that lets the share of a strategy fall to zero.
time_per_strategy_unfloored(timeout, n) == timeout \div n

\* notebooklm.py:310: the timeout split evenly over the strategies, at least 1 second
\* each.
time_per_strategy(timeout, n) ==
    IF timeout \div n > 1 THEN timeout \div n ELSE 1

\* Seconds one strategy of _find_element_multi_strategy waits (notebooklm.py:314-316):
\* WebDriverWait gives up after time_per_strategy when the selector matches nothing;
\* an element that is present is handed over at the first poll.
StrategyWait(matched, timeout, n) ==
    IF matched = <<>> THEN time_per_strategy(timeout, n) ELSE 0

\* One XPath of _find_clickable_by_text (notebooklm.py:362-370): find_elements gives
\* every match; the first displayed one is returned; is_displayed raising ends
\* this XPath.
RECURSIVE ScanElements(_, _)
ScanElements(elements, vis) ==
    IF elements = <<>> THEN NoElement
    ELSE IF vis[Head(elements)] = "visible" THEN Head(elements)
    ELSE IF vis[Head(elements)] = "stale" THEN NoElement
    ELSE ScanElements(Tail(elements), vis)

\* A variant of the strategy loop that gives up at the first strategy without a
\* displayed match.
_find_element_multi_strategy_try_once ==
    /\ find_pc = "loop"
    /\ find_which = "_find_element_multi_strategy"
    /\ find_s <= Len(dom_matches)
    /\ FindReturns(TryStrategy(dom_matches[find_s], dom_vis))
    /\ find_s' = find_s
    /\ find_waits' = Append(find_waits, StrategyWait(dom_matches[find_s], find_timeout,
                                               Len(dom_matches)))
    /\ UNCHANGED <<driver_alive, dom_matches, dom_vis, find_which, find_dumped, find_timeout>>
    /\ UNCHANGED notFind

\* A variant of the strategy loop in which an error of the visibility check ends the
\* call at once.
_find_element_multi_strategy_try_fatal ==
    /\ find_pc = "loop"
    /\ find_which = "_find_element_multi_strategy"
    /\ find_s <= Len(dom_matches)
    /\ LET element == TryStrategy(dom_matches[find_s], dom_vis)
           stale == dom_matches[find_s] # <<>> /\ dom_vis[dom_matches[find_s][1]] = "stale"
       IN  IF element # NoElement \/ stale
           THEN FindReturns(element) /\ find_s' = find_s
           ELSE /\ find_s' = find_s + 1
                /\ UNCHANGED <<find_pc, find_result>>
    /\ find_waits' = Append(find_waits, StrategyWait(dom_matches[find_s], find_timeout,
                                               Len(dom_matches)))
    /\ UNCHANGED <<driver_alive, dom_matches, dom_vis, find_which, find_dumped, find_timeout>>
    /\ UNCHANGED notFind

\* The loop of _find_element_multi_strategy (notebooklm.py:312-324), one strategy.
_find_element_multi_strategy_try ==
    /\ find_pc = "loop"
    /\ find_which = "_find_element_multi_strategy"
    /\ find_s <= Len(dom_matches)
    /\ LET element == TryStrategy(dom_matches[find_s], dom_vis)
       IN  IF element # NoElement
           THEN FindReturns(element) /\ find_s' = find_s
           ELSE /\ find_s' = find_s + 1
                /\ UNCHANGED <<find_pc, find_result>>
    /\ find_waits' = Append(find_waits, StrategyWait(dom_matches[find_s], find_timeout,
                                               Len(dom_matches)))
    /\ UNCHANGED <<driver_alive, dom_matches, dom_vis, find_which, find_dumped, find_timeout>>
    /\ UNCHANGED notFind

\* No strategy gave a displayed element (notebooklm.py:326-328): a warning, the page
\* dump, None.
_find_element_multi_strategy_exhausted ==
    /\ find_pc = "loop"
    /\ find_which = "_find_element_multi_strategy"
    /\ find_s > Len(dom_matches)
    /\ FindReturns(NoElement)
    /\ find_dumped' = TRUE
    /\ UNCHANGED <<driver_alive, dom_matches, dom_vis, find_which, find_s, find_timeout,
                 find_waits>>
    /\ UNCHANGED notFind

\* The loop of _find_clickable_by_text (notebooklm.py:361-370), one XPath: find_elements
\* does not wait (time_per_xpath of line 359 is not used).
_find_clickable_by_text_try ==
    /\ find_pc = "loop"
    /\ find_which = "_find_clickable_by_text"
    /\ find_s <= Len(dom_matches)
    /\ LET element == ScanElements(dom_matches[find_s], dom_vis)
       IN  IF element # NoElement
           THEN FindReturns(element) /\ find_s' = find_s
           ELSE /\ find_s' = find_s + 1
                /\ UNCHANGED <<find_pc, find_result>>
    /\ find_waits' = Append(find_waits, 0)
    /\ UNCHANGED <<driver_alive, dom_matches, dom_vis, find_which, find_dumped, find_timeout>>
    /\ UNCHANGED notFind

\* No XPath gave a displayed element (notebooklm.py:372-373): None, without a dump.
_find_clickable_by_text_exhausted ==
    /\ find_pc = "loop"
    /\ find_which = "_find_clickable_by_text"
    /\ find_s > Len(dom_matches)
    /\ FindReturns(NoElement)
    /\ UNCHANGED <<driver_alive, dom_matches, dom_vis, find_which, find_s, find_dumped,
                 find_timeout, find_waits>>
    /\ UNCHANGED notFind

NextResolve ==
    \/ resolver_enter
    \/ _find_element_multi_strategy_try
    \/ _find_element_multi_strategy_exhausted
    \/ _find_clickable_by_text_try
    \/ _find_clickable_by_text_exhausted

SpecResolve == InitResolve /\ [][NextResolve]_vars

\* Strategy k is the first that matches anything, and the element its lookup yields
\* is displayed.
FirstMatchingIsVisible(k) ==
    /\ k \in 1..Len(dom_matches)
    /\ \A s \in 1..(k - 1) : dom_matches[s] = <<>>
    /\ dom_matches[k] # <<>>
    /\ dom_vis[dom_matches[k][1]] = "visible"

\* C9: when strategies s1..s(K-1) of the entry match no element and sK matches a
\* visible element, _find_element_multi_strategy returns the element matched by sK:
\* not None, and not an element of a later strategy.
C9_ReturnsKthStrategyElement ==
    (find_pc = "returned" /\ find_which = "_find_element_multi_strategy") =>
        \A k \in 1..Len(dom_matches) :
            FirstMatchingIsVisible(k) => find_result = dom_matches[k][1]

\* C9 witness: the first two strategies matched nothing, the third matched a visible
\* element, which was returned although a different element is visible as well.
C9_Witness ==
    /\ find_pc = "returned"
    /\ find_which = "_find_element_multi_strategy"
    /\ FirstMatchingIsVisible(3)
    /\ find_result = dom_matches[3][1]
    /\ \E e \in Elements : e # find_result /\ dom_vis[e] = "visible"

\* The candidates of a call: what the strategies match, strategy after strategy.
RECURSIVE Candidates(_)
Candidates(n) == IF n = 0 THEN <<>> ELSE Candidates(n - 1) \o dom_matches[n]

\* C10: the resolver never returns an invisible element, and when the first candidate
\* matched is invisible and the second is visible, it returns the second, also when
\* one strategy matches both.
C10_SkipsInvisibleCandidate ==
    find_pc = "returned" =>
        /\ find_result # NoElement => dom_vis[find_result] = "visible"
        /\ LET candidates == Candidates(Len(dom_matches))
           IN  (/\ Len(candidates) >= 2
                /\ dom_vis[candidates[1]] = "hidden"
                /\ dom_vis[candidates[2]] = "visible")
               => find_result = candidates[2]

\* Seconds waited in total by the resolver call.
RECURSIVE SumOf(_)
SumOf(seq) == IF seq = <<>> THEN 0 ELSE Head(seq) + SumOf(Tail(seq))

\* _find_element_multi_strategy went through the N >= 1 strategies of its entry and
\* returned not-found.
NotFoundAfterAllStrategies ==
    /\ find_pc = "returned"
    /\ find_which = "_find_element_multi_strategy"
    /\ find_dumped

\* C11 as claimed: with N >= 1 strategies and budget T >= 0 the total wait before
\* _find_element_multi_strategy returns not-found is N * max(1, T div N), which is at
\* most T when T >= N and at most N when T < N.
C11_TotalWaitIsWholeBudget ==
    NotFoundAfterAllStrategies =>
        LET N == Len(dom_matches)
            T == find_timeout
            share == IF T \div N >= 1 THEN T \div N ELSE 1
        IN  /\ SumOf(find_waits) = N * share
            /\ T >= N => SumOf(find_waits) <= T
            /\ T < N => SumOf(find_waits) <= N

\* C11 as amended: every strategy that matches nothing waits max(1, T div N) >= 1
\* seconds, a strategy whose lookup yields an element waits nothing; the total wait
\* before not-found is at most N * max(1, T div N), with equality when no strategy
\* matches anything, hence at most T when T >= N and at most N when T < N.
C11_TotalWaitWithinBudget ==
    NotFoundAfterAllStrategies =>
        LET N == Len(dom_matches)
            T == find_timeout
            share == IF T \div N >= 1 THEN T \div N ELSE 1
        IN  /\ Len(find_waits) = N
            /\ \A s \in 1..N :
                 find_waits[s] = (IF dom_matches[s] = <<>> THEN share ELSE 0)
            /\ \A s \in 1..N : dom_matches[s] = <<>> => find_waits[s] >= 1
            /\ SumOf(find_waits) <= N * share
            /\ (\A s \in 1..N : dom_matches[s] = <<>>) => SumOf(find_waits) = N * share
            /\ T >= N => SumOf(find_waits) <= T
            /\ T < N => SumOf(find_waits) <= N

\* C11 witness: not-found after three strategies that matched nothing, with a budget
\* smaller than the number of strategies, so that each waited the minimum of 1.
C11_Witness ==
    /\ NotFoundAfterAllStrategies
    /\ Len(dom_matches) = 3
    /\ find_timeout = 2
    /\ find_waits = <<1, 1, 1>>

\* Strategy s of the entry gives no displayed element: its selector matches nothing,
\* or the element its lookup yields is hidden, or the visibility check raises.
StrategyMisses(s) ==
    \/ dom_matches[s] = <<>>
    \/ dom_vis[dom_matches[s][1]] \in {"hidden", "stale"}

\* C31: when every strategy of a known catalog entry has been tried without a visible
\* match, _find_element_multi_strategy dumps the page and returns None; a strategy
\* whose visibility check raises is a miss like any other: the strategies after it are
\* tried, and the first of them with a displayed element gives the result.
C31_ExhaustedDumpsAndReturnsNone ==
    (/\ find_pc = "returned"
     /\ find_which = "_find_element_multi_strategy"
     /\ driver_alive
     /\ Len(dom_matches) >= 1) =>
        /\ (\A s \in 1..Len(dom_matches) : StrategyMisses(s)) =>
               /\ find_result = NoElement
               /\ find_dumped
               /\ Len(find_waits) = Len(dom_matches)
        /\ \A k \in 1..Len(dom_matches) :
               (/\ \A s \in 1..(k - 1) : StrategyMisses(s)
                /\ ~StrategyMisses(k)) =>
                   /\ find_result = dom_matches[k][1]
                   /\ ~find_dumped
                   /\ Len(find_waits) = k

\* C31 witness: three strategies were tried, the visibility check of the second
\* raised, none gave a displayed element; the page was dumped and None returned.
C31_Witness ==
    /\ find_pc = "returned"
    /\ find_which = "_find_element_multi_strategy"
    /\ driver_alive
    /\ Len(dom_matches) = 3
    /\ dom_matches[2] # <<>>
    /\ dom_vis[dom_matches[2][1]] = "stale"
    /\ \A s \in 1..3 : StrategyMisses(s)
    /\ find_dumped
    /\ find_result = NoElement
    /\ Len(find_waits) = 3

\* ============================================================ chat texts
\* A text of the chat is a sequence of runs, each a character and the number of times
\* it is repeated; no two neighbouring runs have the same character.
Run(c, n) == [c |-> c, n |-> n]

\* len(text)
RECURSIVE TextLen(_)
TextLen(t) == IF t = <<>> THEN 0 ELSE Head(t).n + TextLen(Tail(t))

\* Neighbouring runs of the same character become one run.
RECURSIVE Norm(_)
Norm(t) ==
    IF Len(t) <= 1 THEN t
    ELSE LET rest == Norm(Tail(t))
         IN  IF Head(t).c = Head(rest).c
             THEN <<Run(Head(t).c, Head(t).n + Head(rest).n)>> \o Tail(rest)
             ELSE <<Head(t)>> \o rest

RECURSIVE LowerRuns(_)
LowerRuns(t) ==
    IF t = <<>> THEN <<>>
    ELSE <<Run(LowerChar(Head(t).c), Head(t).n)>> \o LowerRuns(Tail(t))

\* text.lower()
LowerText(t) == Norm(LowerRuns(t))

\* text.strip()
Strip(t) ==
    LET left == IF t # <<>> /\ Head(t).c = " " THEN Tail(t) ELSE t
    IN  IF left # <<>> /\ left[Len(left)].c = " "
        THEN SubSeq(left, 1, Len(left) - 1)
        ELSE left

\* text[:k]
RECURSIVE Take(_, _)
Take(t, k) ==
    IF k = 0 \/ t = <<>> THEN <<>>
    ELSE IF Head(t).n >= k THEN <<Run(Head(t).c, k)>>
    ELSE <<Head(t)>> \o Take(Tail(t), k - Head(t).n)

\* any(w in text for w in words), each deny-listed word standing as one character
HasAny(t, words) == \E k \in 1..Len(t) : t[k].c \in words

\* notebooklm.py:910
MIN_RESPONSE_LENGTH == 50
\* notebooklm.py:974 and 1013: the length a text must stay under, per pass
SelectorPassLimit == 10000
LastResortLimit == 8000
\* notebooklm.py:907, 976 and 1014: the part of a text compared with the sent message
EchoPrefix == 50
\* notebooklm.py:980 and 1020: the part of a text searched for deny-listed words
DenyWindow == 100

\* notebooklm.py:978-979 and 1016-1019: "s" stands for the words both passes skip
\* ("quellen", "source", ...), "m" for those only the last resort skips ("menu", ...).
SelectorPassSkipWords == {"s"}
LastResortSkipWords == {"s", "m"}

\* notebooklm.py:907
UserMessageLower(msg) == Take(LowerText(Strip(msg)), EchoPrefix)

\* A variant of the filter without the upper limit on the length.
Survives_nolimit(text, msg, limit, skip_words) ==
    /\ TextLen(text) >= MIN_RESPONSE_LENGTH
    /\ Take(LowerText(text), EchoPrefix) # UserMessageLower(msg)
    /\ ~HasAny(Take(LowerText(text), DenyWindow), skip_words)

\* A variant of the filter without the deny-list.
Survives_nodeny(text, msg, limit, skip_words) ==
    /\ TextLen(text) >= MIN_RESPONSE_LENGTH
    /\ TextLen(text) < limit
    /\ Take(LowerText(text), EchoPrefix) # UserMessageLower(msg)

\* A variant of the filter that uses the deny-list of the selector pass in both passes.
Survives_onelist(text, msg, limit, skip_words) ==
    /\ TextLen(text) >= MIN_RESPONSE_LENGTH
    /\ TextLen(text) < limit
    /\ Take(LowerText(text), EchoPrefix) # UserMessageLower(msg)
    /\ ~HasAny(Take(LowerText(text), DenyWindow), SelectorPassSkipWords)

\* notebooklm.py:974-980 and 1013-1020: the filters a stripped text must pass.
Survives(text, msg, limit, skip_words) ==
    /\ TextLen(text) >= MIN_RESPONSE_LENGTH
    /\ TextLen(text) < limit
    /\ Take(LowerText(text), EchoPrefix) # UserMessageLower(msg)
    /\ ~HasAny(Take(LowerText(text), DenyWindow), skip_words)

\* ============================================================ send_chat_message
\* The first text of the candidates, in the order given, that passes the filters
\* (notebooklm.py:971-982, 1008-1022); every candidate here is displayed.
RECURSIVE FirstSurvivor(_, _, _, _, _)
FirstSurvivor(candidates, msg, limit, skip_words, pass) ==
    IF candidates = <<>> THEN Result("None")
    ELSE LET text == Strip(Head(candidates).text)
         IN  IF Survives(text, msg, limit, skip_words)
             THEN TextResult(text, pass)
             ELSE FirstSurvivor(Tail(candidates), msg, limit, skip_words, pass)

\* One response selector (notebooklm.py:965-990): the displayed elements it matches,
\* last one first; is_displayed raising on any of them ends this selector.
SelectorPass(sel, msg, ds) ==
    LET elements == SelectSeq(ds, LAMBDA d : d.sel = sel)
        visible == SelectSeq(elements, LAMBDA d : d.vis = "visible")
    IN  IF \E k \in 1..Len(elements) : elements[k].vis = "stale"
        THEN Result("None")
        ELSE FirstSurvivor(Reverse(visible), msg, SelectorPassLimit,
                           SelectorPassSkipWords, "selector")

\* The response selectors in their order, from sel on (notebooklm.py:964).
RECURSIVE SelectorPasses(_, _, _)
SelectorPasses(sel, msg, ds) ==
    IF sel > MaxSelectors THEN Result("None")
    ELSE LET found == SelectorPass(sel, msg, ds)
         IN  IF found.kind = "text" THEN found
             ELSE SelectorPasses(sel + 1, msg, ds)

\* The last resort (notebooklm.py:1008-1024): every div, last one first; a div that
\* is not displayed, or whose access raises, is passed over.
LastResort(msg, ds) ==
    FirstSurvivor(Reverse(SelectSeq(ds, LAMBDA d : d.vis = "visible")), msg,
                  LastResortLimit, LastResortSkipWords, "last_resort")

\* The extraction of send_chat_message (notebooklm.py:903-1030).
ExtractAnswer(msg, ds) ==
    LET found == SelectorPasses(1, msg, ds)
    IN  IF found.kind = "text" THEN found ELSE LastResort(msg, ds)

\* Texts as they stand in the page. Sizes are chosen around the limits of the filters.
ChatTexts ==
    { <<Run("a", 48), Run(" ", 2), Run("b", 10)>>,
      <<Run("A", 50)>>,
      <<Run(" ", 2), Run("b", 49), Run(" ", 2)>>,
      <<Run("b", 50), Run("S", 1)>>,
      <<Run("b", 100), Run("s", 1)>>,
      <<Run("b", 60), Run("m", 1)>>,
      <<Run("b", 8000)>>,
      <<Run("b", 10000)>> }

\* Messages to send: one ending in blanks, one starting with a blank, a short one.
ChatMessages ==
    { <<Run("a", 48), Run(" ", 2)>>,
      <<Run(" ", 1), Run("A", 50)>>,
      <<Run("a", 5)>> }

\* The divs of the page: a displayed div has a text; WebElement.text of a div that is
\* not displayed is empty, and a stale div has none to read.
ChatDivs ==
    {[text |-> t, vis |-> "visible", sel |-> sel] : t \in ChatTexts, sel \in 0..MaxSelectors}
    \cup {[text |-> <<>>, vis |-> v, sel |-> sel] :
            v \in {"hidden", "stale"}, sel \in 0..MaxSelectors}

RECURSIVE DivLists(_)
DivLists(n) ==
    IF n = 0 THEN {<<>>}
    ELSE DivLists(n - 1) \cup {Append(ds, d) : ds \in DivLists(n - 1), d \in ChatDivs}

\* send_chat_message is called; the page it reads the answer from is the one that
\* stands after the wait for the answer.
InitChat ==
    /\ StudioIdle
    /\ ClickIdle
    /\ FindRestIdle
    /\ LoopIdle
    /\ ReportIdle
    /\ DownloadIdle
    /\ ProtocolIdle
    /\ TypingIdle
    /\ current_notebook = None
    /\ QueueIdle
    /\ driver_alive \in BOOLEAN
    /\ client_op = "send_chat_message"
    /\ client_pc = "call"
    /\ client_result = Result("pending")
    /\ client_reports = <<>>
    /\ client_trace = <<>>
    /\ message \in ChatMessages
    /\ divs = <<>>

\* The operation returns.
ClientReturns(result) ==
    /\ client_result' = result
    /\ client_pc' = "returned"

\* notebooklm.py:796-798: a dead session gives None at once.
send_chat_message_enter ==
    /\ client_op = "send_chat_message"
    /\ client_pc = "call"
    /\ IF driver_alive
       THEN client_pc' = "chat_tab" /\ client_result' = client_result
       ELSE ClientReturns(Failure("None", "dead_session"))
    /\ UNCHANGED <<client_op, client_reports, client_trace, message, divs, driver_alive>>
    /\ UNCHANGED notClient

\* notebooklm.py:803-817: the Chat tab is looked up and clicked when found; the
\* helpers used swallow their errors, and the call goes on either way.
send_chat_message_chat_tab ==
    /\ client_op = "send_chat_message"
    /\ client_pc = "chat_tab"
    /\ \E found \in BOOLEAN :
         client_trace' = client_trace \o
             (IF found THEN <<"find:chat_tab", "click:chat_tab">> ELSE <<"find:chat_tab">>)
    /\ client_pc' = "chat_input"
    /\ UNCHANGED <<client_op, client_result, client_reports, message, divs, driver_alive>>
    /\ UNCHANGED notClient

\* notebooklm.py:825-867: the textareas are listed and one is chosen by its placeholder;
\* without one the error report is generated and None returned; find_elements and
\* is_displayed are not guarded here, an error of theirs goes to the handler at 1032.
send_chat_message_chat_input ==
    /\ client_op = "send_chat_message"
    /\ client_pc = "chat_input"
    /\ client_trace' = Append(client_trace, "find:textarea")
    /\ \E outcome \in {"found", "not_found", "raised"} :
         CASE outcome = "found" ->
                /\ client_pc' = "send"
                /\ UNCHANGED <<client_result, client_reports>>
           [] outcome = "not_found" ->
                /\ client_reports' = Append(client_reports,
                                            "send_chat_message - chat input not found")
                /\ ClientReturns(Failure("None", "not_found"))
           [] outcome = "raised" ->
                /\ ClientReturns(Failure("None", "exception"))
                /\ UNCHANGED client_reports
    /\ UNCHANGED <<client_op, message, divs, driver_alive>>
    /\ UNCHANGED notClient

\* notebooklm.py:869-893: the message is typed and sent by the send button or the
\* Enter key; send_keys raising goes to the handler at 1032.
send_chat_message_send ==
    /\ client_op = "send_chat_message"
    /\ client_pc = "send"
    /\ client_trace' = Append(client_trace, "send_keys:message")
    /\ \E raised \in BOOLEAN :
         IF raised
         THEN ClientReturns(Failure("None", "exception"))
         ELSE client_pc' = "extract" /\ client_result' = client_result
    /\ UNCHANGED <<client_op, client_reports, message, divs, driver_alive>>
    /\ UNCHANGED notClient

\* notebooklm.py:901-1030: after the wait, the answer is extracted from the page; None
\* when no text qualifies.
send_chat_message_extract ==
    /\ client_op = "send_chat_message"
    /\ client_pc = "extract"
    /\ client_trace' = Append(client_trace, "find:response")
    /\ \E page \in DivLists(MaxDivs) :
         /\ divs' = page
         /\ LET found == ExtractAnswer(message, page)
            IN  ClientReturns(IF found.kind = "text" THEN found
                              ELSE Failure("None", "miss"))
    /\ UNCHANGED <<client_op, client_reports, message, driver_alive>>
    /\ UNCHANGED notClient

NextChat ==
    \/ send_chat_message_enter
    \/ send_chat_message_chat_tab
    \/ send_chat_message_chat_input
    \/ send_chat_message_send
    \/ send_chat_message_extract

SpecChat == InitChat /\ [][NextChat]_vars

\* send_chat_message returned what its extraction gave.
ChatExtracted ==
    /\ client_op = "send_chat_message"
    /\ client_pc = "returned"
    /\ client_result.cause \in {None, "miss"}

\* C12: send_chat_message never returns a text shorter than 50 characters, nor one of
\* 10000 characters or more from the selector pass, nor one of 8000 characters or
\* more from the last resort.
C12_ReturnedLengthInWindow ==
    (client_op = "send_chat_message" /\ client_result.kind = "text") =>
        /\ TextLen(client_result.text) >= 50
        /\ client_result.pass = "selector" => TextLen(client_result.text) < 10000
        /\ client_result.pass = "last_resort" => TextLen(client_result.text) < 8000

\* C12 witness: a text of 8000 characters was returned by the selector pass although
\* the page also holds a text of 10000 characters.
C12_Witness ==
    /\ ChatExtracted
    /\ client_result.kind = "text"
    /\ client_result.pass = "selector"
    /\ TextLen(client_result.text) = 8000
    /\ \E k \in 1..Len(divs) : TextLen(divs[k].text) = 10000

\* C13: send_chat_message never returns a text whose first 50 characters, compared
\* case-insensitively, equal the first 50 characters of the sent message.
C13_NeverEchoesSentMessage ==
    (client_op = "send_chat_message" /\ client_result.kind = "text") =>
        Take(LowerText(client_result.text), 50) # Take(LowerText(message), 50)

\* The filters reject the text of a displayed div: its length is outside the window,
\* it starts like the sent message, or it holds a deny-listed word near its start.
Rejected(div, limit, words) ==
    LET text == Strip(div.text)
    IN  \/ TextLen(text) < 50
        \/ TextLen(text) >= limit
        \/ Take(LowerText(text), 50) = Take(LowerText(Strip(message)), 50)
        \/ \E k \in 1..Len(Take(LowerText(text), 100)) :
             Take(LowerText(text), 100)[k].c \in words

\* Every candidate is out: not displayed, or rejected by the filters of the last
\* resort and, under its response selector, rejected by the filters of the selector
\* pass or dropped with its selector because an element access raised.
EveryCandidateOut ==
    \A k \in 1..Len(divs) :
        divs[k].vis = "visible" =>
            /\ Rejected(divs[k], 8000, {"s", "m"})
            /\ divs[k].sel # 0 =>
                 \/ Rejected(divs[k], 10000, {"s"})
                 \/ \E n \in 1..Len(divs) : divs[n].sel = divs[k].sel /\ divs[n].vis = "stale"

PassLimit(pass) == IF pass = "selector" THEN 10000 ELSE 8000
PassWords(pass) == IF pass = "selector" THEN {"s"} ELSE {"s", "m"}

\* Div k is a candidate of the pass (the selector pass looks at the divs a response
\* selector matches, the last resort at every div) and its text passes the filters
\* of that pass.
SurvivingCandidate(k, pass) ==
    /\ divs[k].vis = "visible"
    /\ pass = "selector" => divs[k].sel # 0
    /\ ~Rejected(divs[k], PassLimit(pass), PassWords(pass))

\* C32: send_chat_message returns the most recent surviving candidate: the text
\* returned is that of the last div in document order, among all candidates of the
\* search root, that passes the filters, whichever response selector matched it.
C32_ReturnsMostRecentSurvivor ==
    (ChatExtracted /\ client_result.kind = "text") =>
        \E k \in 1..Len(divs) :
            /\ SurvivingCandidate(k, client_result.pass)
            /\ client_result.text = Strip(divs[k].text)
            /\ \A n \in (k + 1)..Len(divs) : ~SurvivingCandidate(n, client_result.pass)

\* What does hold: the text returned by the selector pass is the last surviving
\* candidate of ONE response selector, the first selector in the list that has a
\* survivor; the last resort returns the last surviving div.
ReturnsLastSurvivorOfFirstSelector ==
    (ChatExtracted /\ client_result.kind = "text") =>
        \E k \in 1..Len(divs) :
            /\ SurvivingCandidate(k, client_result.pass)
            /\ client_result.text = Strip(divs[k].text)
            /\ \A n \in (k + 1)..Len(divs) :
                 SurvivingCandidate(n, client_result.pass) =>
                     /\ client_result.pass = "selector"
                     /\ divs[n].sel # divs[k].sel

\* An older answer was returned although a more recent candidate survives: the two
\* are matched by different response selectors.
OlderAnswerReturned ==
    /\ ChatExtracted
    /\ client_result.kind = "text"
    /\ client_result.pass = "selector"
    /\ Len(divs) = 2
    /\ client_result.text = Strip(divs[1].text)
    /\ SurvivingCandidate(2, "selector")
    /\ Strip(divs[2].text) # Strip(divs[1].text)

\* C33: send_chat_message never returns a text whose first 100 characters,
\* lower-cased, hold a word of the deny-list of the pass that produced it; a
\* candidate holding one is passed over and the next one examined.
C33_NeverReturnsDenyListedText ==
    (client_op = "send_chat_message" /\ client_result.kind = "text") =>
        LET window == Take(LowerText(client_result.text), 100)
        IN  \A k \in 1..Len(window) : window[k].c \notin PassWords(client_result.pass)

\* C33 witness: the last resort returned a text although a more recent div holds a
\* word only the last resort denies; that div was passed over.
C33_Witness ==
    /\ ChatExtracted
    /\ client_result.kind = "text"
    /\ client_result.pass = "last_resort"
    /\ Len(divs) = 2
    /\ client_result.text = Strip(divs[1].text)
    /\ divs[2].vis = "visible"
    /\ TextLen(Strip(divs[2].text)) >= 50
    /\ TextLen(Strip(divs[2].text)) < 8000
    /\ \E k \in 1..Len(divs[2].text) : divs[2].text[k].c = "m"

\* ============================================================ upload_file_source
\* get_sources_count (notebooklm.py:1358-1414): the number the page shows, or 0 when
\* nothing could be read from the page.
ReadCounts(count) == {count, 0}

\* While the operation sleeps the notebook may gain sources.
Grown(count) == count..MaxCount

\* upload_file_source is called on a notebook that shows some number of sources.
InitUpload ==
    /\ StudioIdle
    /\ ClickIdle
    /\ FindRestIdle
    /\ ReportIdle
    /\ DownloadIdle
    /\ ProtocolIdle
    /\ TypingIdle
    /\ current_notebook = None
    /\ QueueIdle
    /\ driver_alive \in BOOLEAN
    /\ client_op = "upload_file_source"
    /\ client_pc = "call"
    /\ client_result = Result("pending")
    /\ client_reports = <<>>
    /\ client_trace = <<>>
    /\ message = <<>>
    /\ divs = <<>>
    /\ now = 0
    /\ start_time = 0
    /\ wait_timeout \in 0..MaxWaitTimeout
    /\ waited = 0
    /\ iterations = 0
    /\ source_count \in 0..MaxCount
    /\ count_before = source_count
    /\ initial_sources = 0

\* The operation goes on to the next step, after a sleep.
ClientGoes(next_pc, slept) ==
    /\ client_pc' = next_pc
    /\ now' = now + slept

\* The operation hands over to _manual_upload_fallback (notebooklm.py:1186, 1208, 1268).
FallsBack(cause) ==
    /\ client_pc' = "fallback"
    /\ client_result' = Failure("pending", cause)

\* notebooklm.py:1081-1091: a dead session and a missing file give False at once.
upload_file_source_enter ==
    /\ client_op = "upload_file_source"
    /\ client_pc = "call"
    /\ IF ~driver_alive
       THEN ClientReturns(Failure("False", "dead_session"))
       ELSE \E exists \in BOOLEAN :
              IF exists
              THEN client_pc' = "add_source" /\ client_result' = client_result
              ELSE ClientReturns(Failure("False", "no_file"))
    /\ UNCHANGED <<client_op, client_reports, client_trace, message, divs, driver_alive>>
    /\ UNCHANGED <<notSession, loopVars>>

\* notebooklm.py:1094-1110: the Add source button is looked up three ways and clicked;
\* without it False is returned; an error other than WebDriverException in the
\* liveness probe of a resolver reaches the handler at 1264.
upload_file_source_add_source ==
    /\ client_op = "upload_file_source"
    /\ client_pc = "add_source"
    /\ \E outcome \in {"found", "not_found", "raised"} :
         CASE outcome = "found" ->
                /\ client_trace' = client_trace \o <<"find:add_source", "click:add_source">>
                /\ ClientGoes("upload_option", 2)
                /\ client_result' = client_result
           [] outcome = "not_found" ->
                /\ client_trace' = Append(client_trace, "find:add_source")
                /\ ClientReturns(Failure("False", "not_found"))
                /\ now' = now
           [] outcome = "raised" ->
                /\ client_trace' = Append(client_trace, "find:add_source")
                /\ FallsBack("exception")
                /\ now' = now
    /\ UNCHANGED <<client_op, client_reports, message, divs, driver_alive>>
    /\ UNCHANGED <<start_time, wait_timeout, waited, iterations, source_count,
                   count_before, initial_sources>>
    /\ UNCHANGED notSession

\* notebooklm.py:1112-1139: the "upload from computer" option is looked up and clicked
\* when found; the call goes on either way.
upload_file_source_upload_option ==
    /\ client_op = "upload_file_source"
    /\ client_pc = "upload_option"
    /\ \E found \in BOOLEAN :
         IF found
         THEN /\ client_trace' = client_trace \o <<"find:upload_option", "click:upload_option">>
              /\ ClientGoes("file_input", 2)
         ELSE /\ client_trace' = Append(client_trace, "find:upload_option")
              /\ ClientGoes("file_input", 0)
    /\ UNCHANGED <<client_op, client_result, client_reports, message, divs, driver_alive>>
    /\ UNCHANGED <<start_time, wait_timeout, waited, iterations, source_count,
                   count_before, initial_sources>>
    /\ UNCHANGED notSession

\* notebooklm.py:1141-1214: the file input is looked up and the path is sent to it;
\* without the input, or when send_keys raises, the manual fallback takes over;
\* otherwise, after 3 seconds, the completion poll starts.
upload_file_source_send_path ==
    /\ client_op = "upload_file_source"
    /\ client_pc = "file_input"
    /\ \E outcome \in {"sent", "not_found", "raised"} :
         CASE outcome = "sent" ->
                /\ client_trace' = client_trace \o <<"find:file_input", "send_keys:file_input">>
                /\ ClientGoes("poll", 3)
                /\ start_time' = now + 3
                /\ client_result' = client_result
           [] outcome = "not_found" ->
                /\ client_trace' = Append(client_trace, "find:file_input")
                /\ FallsBack("not_found")
                /\ UNCHANGED <<now, start_time>>
           [] outcome = "raised" ->
                /\ client_trace' = client_trace \o <<"find:file_input", "send_keys:file_input">>
                /\ FallsBack("exception")
                /\ UNCHANGED <<now, start_time>>
    /\ UNCHANGED <<client_op, client_reports, message, divs, driver_alive>>
    /\ UNCHANGED <<wait_timeout, waited, iterations, source_count, count_before,
                   initial_sources>>
    /\ UNCHANGED notSession

\* One iteration of the completion poll (notebooklm.py:1219-1246), as what it finds, how
\* long it sleeps and what the notebook shows afterwards: a positive count at the first
\* reading; else, with no loading indicator displayed, a positive count 2 seconds
\* later; else (also when the look for indicators raises) 2 more seconds of sleep.
PollOutcomes(count) ==
    {[complete |-> TRUE, slept |-> 0, count |-> count] : r \in ReadCounts(count) \ {0}}
    \cup {[complete |-> TRUE, slept |-> 2, count |-> c] : c \in Grown(count) \ {0}}
    \cup {[complete |-> FALSE, slept |-> 4, count |-> c] : c \in Grown(count)}
    \cup {[complete |-> FALSE, slept |-> 2, count |-> c] : c \in Grown(count)}

\* A variant of the poll's loop condition that never gives up.
PollGoesOn_forever(time, start, timeout) == TRUE

\* The loop condition of the completion poll and of the manual wait (1218, 1293).
PollGoesOn(time, start, timeout) == time - start < timeout

\* notebooklm.py:1218-1248: the completion poll.
upload_file_source_poll ==
    /\ client_op = "upload_file_source"
    /\ client_pc = "poll"
    /\ PollGoesOn(now, start_time, wait_timeout)
    /\ \E o \in PollOutcomes(source_count) :
         /\ ClientGoes(IF o.complete THEN "complete" ELSE "poll", o.slept)
         /\ source_count' = o.count
    /\ iterations' = iterations + 1
    /\ UNCHANGED <<client_op, client_result, client_reports, client_trace, message, divs,
                   driver_alive>>
    /\ UNCHANGED <<start_time, wait_timeout, waited, count_before, initial_sources>>
    /\ UNCHANGED notSession

\* notebooklm.py:1250-1254: completion was detected; overlays are dismissed, True.
upload_file_source_complete ==
    /\ client_op = "upload_file_source"
    /\ client_pc = "complete"
    /\ client_trace' = Append(client_trace, "_dismiss_overlays")
    /\ ClientReturns(Result("True"))
    /\ UNCHANGED <<client_op, client_reports, message, divs, driver_alive>>
    /\ UNCHANGED loopVars
    /\ UNCHANGED notSession

\* notebooklm.py:1255-1262: the poll ran out of time; a last reading of the count
\* decides between True and False.
upload_file_source_timeout ==
    /\ client_op = "upload_file_source"
    /\ client_pc = "poll"
    /\ ~PollGoesOn(now, start_time, wait_timeout)
    /\ \E r \in ReadCounts(source_count) :
         ClientReturns(IF r > 0 THEN Result("True") ELSE Failure("False", "timeout"))
    /\ UNCHANGED <<client_op, client_reports, client_trace, message, divs, driver_alive>>
    /\ UNCHANGED loopVars
    /\ UNCHANGED notSession

\* notebooklm.py:1270-1291: _manual_upload_fallback prompts the user and reads the
\* count to compare with.
_manual_upload_fallback_enter ==
    /\ client_op = "upload_file_source"
    /\ client_pc = "fallback"
    /\ client_trace' = Append(client_trace, "_manual_upload_fallback")
    /\ client_pc' = "fallback_loop"
    /\ start_time' = now
    /\ iterations' = 0
    /\ \E r \in ReadCounts(source_count) : initial_sources' = r
    /\ UNCHANGED <<client_op, client_result, client_reports, message, divs, driver_alive>>
    /\ UNCHANGED <<now, wait_timeout, waited, source_count, count_before>>
    /\ UNCHANGED notSession

\* notebooklm.py:1293-1303: one iteration of the manual wait: True when the count read
\* is above the initial one, else 5 seconds of sleep.
_manual_upload_fallback_poll ==
    /\ client_op = "upload_file_source"
    /\ client_pc = "fallback_loop"
    /\ PollGoesOn(now, start_time, wait_timeout)
    /\ \E r \in ReadCounts(source_count) :
         IF r > initial_sources
         THEN /\ ClientReturns(Result("True"))
              /\ UNCHANGED <<now, source_count>>
         ELSE /\ \E c \in Grown(source_count) : source_count' = c
              /\ now' = now + 5
              /\ UNCHANGED <<client_pc, client_result>>
    /\ iterations' = iterations + 1
    /\ UNCHANGED <<client_op, client_reports, client_trace, message, divs, driver_alive>>
    /\ UNCHANGED <<start_time, wait_timeout, waited, count_before, initial_sources>>
    /\ UNCHANGED notSession

\* notebooklm.py:1305-1306: the manual wait ran out of time, False.
_manual_upload_fallback_timeout ==
    /\ client_op = "upload_file_source"
    /\ client_pc = "fallback_loop"
    /\ ~PollGoesOn(now, start_time, wait_timeout)
    /\ ClientReturns(Failure("False", client_result.cause))
    /\ UNCHANGED <<client_op, client_reports, client_trace, message, divs, driver_alive>>
    /\ UNCHANGED loopVars
    /\ UNCHANGED notSession

NextUpload ==
    \/ upload_file_source_enter
    \/ upload_file_source_add_source
    \/ upload_file_source_upload_option
    \/ upload_file_source_send_path
    \/ upload_file_source_poll
    \/ upload_file_source_complete
    \/ upload_file_source_timeout
    \/ _manual_upload_fallback_enter
    \/ _manual_upload_fallback_poll
    \/ _manual_upload_fallback_timeout

SpecUpload == InitUpload /\ [][NextUpload]_vars

\* upload_file_source returned.
UploadReturned == client_op = "upload_file_source" /\ client_pc = "returned"

\* C15: upload_file_source returns True only if the source count went up from what
\* the notebook showed before the upload; sources that were there before do not make
\* the upload count as complete.
C15_SuccessOnlyOnIncrease ==
    (UploadReturned /\ client_result.kind = "True") => source_count > count_before

\* C16: when the completion poll runs out of time without detecting completion,
\* _manual_upload_fallback is run before False is returned.
C16_FallbackBeforeFailure ==
    (UploadReturned /\ client_result.kind = "False" /\ client_result.cause = "timeout") =>
        \E k \in 1..Len(client_trace) : client_trace[k] = "_manual_upload_fallback"

\* C30: upload_file_source sends the file path straight to the file-input element:
\* between opening the add-source dialog and sending the path no 'upload from
\* computer' control, which opens the native file chooser, is clicked.
C30_NoUploadControlClicked ==
    \A k \in 1..Len(client_trace) :
        (client_op = "upload_file_source" /\ client_trace[k] = "send_keys:file_input") =>
            \A m \in 1..(k - 1) : client_trace[m] # "click:upload_option"

\* What does hold: the path is sent whether or not such a control was found, and the
\* control is clicked whenever it is found.
UploadControlClickedWhenFound ==
    \A k \in 1..Len(client_trace) :
        (client_op = "upload_file_source" /\ client_trace[k] = "find:upload_option") =>
            (k = Len(client_trace) \/ client_trace[k + 1] \in
                {"click:upload_option", "find:file_input"})

\* ============================================================ navigate_to_notebooklm
\* notebooklm.py:513
max_wait == 120

\* What the browser shows when the login wait looks at current_url: the Google login,
\* a NotebookLM page whose source holds the expected words, a NotebookLM page that
\* does not (yet), any other page; or reading the URL raises.
PageKinds == {"login", "notebooklm_ready", "notebooklm_blank", "other", "raised"}

\* The operations that run navigate_to_notebooklm.
Navigating == client_op \in {"navigate_to_notebooklm", "create_notebook"}

\* navigate_to_notebooklm returns to its caller: create_notebook raises on False
\* (notebooklm.py:646-647, 698-700) and goes on to the create button on True.
NavigateReturns(ok, cause) ==
    IF client_op = "navigate_to_notebooklm"
    THEN ClientReturns(IF ok THEN Result("True") ELSE Failure("False", cause))
    ELSE IF ok
         THEN client_pc' = "create_button" /\ client_result' = client_result
         ELSE ClientReturns(Failure("raised", "Exception"))

InitNavigate ==
    /\ StudioIdle
    /\ ClickIdle
    /\ FindRestIdle
    /\ LoopIdle
    /\ ReportIdle
    /\ DownloadIdle
    /\ ProtocolIdle
    /\ TypingIdle
    /\ current_notebook = None
    /\ QueueIdle
    /\ driver_alive \in BOOLEAN
    /\ client_op = "navigate_to_notebooklm"
    /\ client_pc = "navigate"
    /\ client_result = Result("pending")
    /\ client_reports = <<>>
    /\ client_trace = <<>>
    /\ message = <<>>
    /\ divs = <<>>

\* notebooklm.py:506-515: False for a dead session; the page is requested (an error
\* goes to the handler at 569) and, after 3 seconds, the login wait starts.
navigate_to_notebooklm_enter ==
    /\ Navigating
    /\ client_pc = "navigate"
    /\ IF ~driver_alive
       THEN /\ NavigateReturns(FALSE, "dead_session")
            /\ UNCHANGED <<client_trace, now>>
       ELSE /\ client_trace' = Append(client_trace, "get:notebooklm_url")
            /\ \E raised \in BOOLEAN :
                 IF raised
                 THEN NavigateReturns(FALSE, "exception") /\ now' = now
                 ELSE /\ ClientGoes("login_wait", 3)
                      /\ client_result' = client_result
    /\ waited' = 0
    /\ iterations' = 0
    /\ UNCHANGED <<client_op, client_reports, message, divs, driver_alive>>
    /\ UNCHANGED <<start_time, wait_timeout, source_count, count_before, initial_sources>>
    /\ UNCHANGED notSession

\* notebooklm.py:529-530, 557-558, 562-563: the counter after one iteration.
WaitedAfter(page, counter) == IF page = "login" THEN counter + 3 ELSE counter + 2

\* notebooklm.py:517-563: one iteration of the login wait.
navigate_to_notebooklm_wait ==
    /\ Navigating
    /\ client_pc = "login_wait"
    /\ waited < max_wait
    /\ iterations' = iterations + 1
    /\ \E page \in PageKinds :
         CASE page = "raised" ->
                /\ NavigateReturns(FALSE, "exception")
                /\ UNCHANGED <<client_trace, now, waited>>
           [] page = "notebooklm_ready" ->
                /\ client_trace' = Append(client_trace, "_dismiss_overlays")
                /\ NavigateReturns(TRUE, None)
                /\ now' = now + 3
                /\ waited' = waited
           [] page = "login" ->
                /\ now' = now + 3
                /\ waited' = WaitedAfter(page, waited)
                /\ UNCHANGED <<client_trace, client_pc, client_result>>
           [] page = "notebooklm_blank" ->
                /\ now' = now + 5
                /\ waited' = WaitedAfter(page, waited)
                /\ UNCHANGED <<client_trace, client_pc, client_result>>
           [] page = "other" ->
                /\ now' = now + 2
                /\ waited' = WaitedAfter(page, waited)
                /\ UNCHANGED <<client_trace, client_pc, client_result>>
    /\ UNCHANGED <<client_op, client_reports, message, divs, driver_alive>>
    /\ UNCHANGED <<start_time, wait_timeout, source_count, count_before, initial_sources>>
    /\ UNCHANGED notSession

\* notebooklm.py:565-571: the login wait ran out, False.
navigate_to_notebooklm_timeout ==
    /\ Navigating
    /\ client_pc = "login_wait"
    /\ waited >= max_wait
    /\ NavigateReturns(FALSE, "timeout")
    /\ UNCHANGED <<client_op, client_reports, client_trace, message, divs, driver_alive>>
    /\ UNCHANGED loopVars
    /\ UNCHANGED notSession

NextNavigate ==
    \/ navigate_to_notebooklm_enter
    \/ navigate_to_notebooklm_wait
    \/ navigate_to_notebooklm_timeout

SpecNavigate == InitNavigate /\ [][NextNavigate]_vars

\* ============================================================ create_notebook
\* GoogleAuthenticator.get_driver (google_auth.py:99-103) takes no argument besides
\* self: a call with a keyword argument raises TypeError; otherwise the driver held is
\* returned, and one is created only when none is held.
get_driver(kwargs, has_driver) ==
    IF kwargs # {}
    THEN [raised |-> "TypeError", created |-> FALSE]
    ELSE [raised |-> None, created |-> ~has_driver]

InitCreate ==
    /\ StudioIdle
    /\ ClickIdle
    /\ FindRestIdle
    /\ LoopIdle
    /\ ReportIdle
    /\ DownloadIdle
    /\ ProtocolIdle
    /\ TypingIdle
    /\ current_notebook = None
    /\ QueueIdle
    /\ driver_alive \in BOOLEAN
    /\ client_op = "create_notebook"
    /\ client_pc = "call"
    /\ client_result = Result("pending")
    /\ client_reports = <<>>
    /\ client_trace = <<>>
    /\ message = <<>>
    /\ divs = <<>>

\* notebooklm.py:640-641: with a dead session the driver is asked from the
\* authenticator by get_driver(force_recreate=True), outside the try block.
create_notebook_enter ==
    /\ client_op = "create_notebook"
    /\ client_pc = "call"
    /\ IF driver_alive
       THEN /\ client_pc' = "navigate"
            /\ UNCHANGED <<client_result, client_trace, driver_alive>>
       ELSE \E has_driver \in BOOLEAN :
              LET got == get_driver({"force_recreate"}, has_driver)
              IN  IF got.raised # None
                  THEN /\ ClientReturns(Failure("raised", got.raised))
                       /\ client_trace' = Append(client_trace, "get_driver")
                       /\ driver_alive' = driver_alive
                  ELSE /\ client_pc' = "navigate"
                       /\ client_result' = client_result
                       /\ client_trace' = client_trace \o
                            (IF got.created THEN <<"get_driver", "_create_driver">>
                             ELSE <<"get_driver">>)
                       /\ driver_alive' = got.created
    /\ UNCHANGED <<client_op, client_reports, message, divs>>
    /\ UNCHANGED loopVars
    /\ UNCHANGED notSession

\* notebooklm.py:649-700: overlays are dismissed, the create button is looked up three
\* ways and clicked, and the notebook page is awaited and kept as current_notebook; without the button (after a
\* page dump) and when the page does not come, the exception is logged and re-raised.
create_notebook_create_button ==
    /\ client_op = "create_notebook"
    /\ client_pc = "create_button"
    /\ \E outcome \in {"created", "not_found", "no_page"} :
         CASE outcome = "created" ->
                /\ client_trace' = client_trace \o
                     <<"_dismiss_overlays", "find:new_notebook_btn", "click:new_notebook_btn">>
                /\ ClientReturns(Result("NotebookProject"))
                /\ current_notebook' = "name"
                /\ now' = now + 7
           [] outcome = "not_found" ->
                /\ client_trace' = client_trace \o
                     <<"_dismiss_overlays", "find:new_notebook_btn", "_debug_dump_page_info">>
                /\ ClientReturns(Failure("raised", "Exception"))
                /\ current_notebook' = current_notebook
                /\ now' = now + 4
           [] outcome = "no_page" ->
                /\ client_trace' = client_trace \o
                     <<"_dismiss_overlays", "find:new_notebook_btn", "click:new_notebook_btn">>
                /\ ClientReturns(Failure("raised", "TimeoutException"))
                /\ current_notebook' = current_notebook
                /\ now' = now + 22
    /\ UNCHANGED <<client_op, client_reports, message, divs, driver_alive>>
    /\ UNCHANGED <<start_time, wait_timeout, waited, iterations, source_count,
                   count_before, initial_sources>>
    /\ UNCHANGED notSessionNorNotebook

NextCreate ==
    \/ create_notebook_enter
    \/ navigate_to_notebooklm_enter
    \/ navigate_to_notebooklm_wait
    \/ navigate_to_notebooklm_timeout
    \/ create_notebook_create_button

SpecCreate == InitCreate /\ [][NextCreate]_vars

\* C17: a session found dead by the liveness probe is recreated and the operation
\* goes on with a live session: create_notebook called with a dead driver gets a fresh
\* driver from the authenticator and does not end in an unrelated error.
C17_DeadSessionIsRecreated ==
    (client_op = "create_notebook" /\ client_pc # "call") =>
        /\ driver_alive
        /\ client_result.cause # "TypeError"

(***************************************************************************)
(* _generate_error_report (notebooklm.py:185-297): the page's address, the *)
(* inventories of buttons, textareas and editables, a screenshot and the   *)
(* page's HTML are captured inside one try block; the report is built from *)
(* what was captured, saved and returned.                                  *)
(***************************************************************************)

\* The capture steps, in the order of the code.
CaptureSteps == <<"buttons", "textareas", "editables", "screenshot", "html">>

\* notebooklm.py:205, 218, 231: the inventories list the first 20 buttons, the first 10
\* textareas, the first 10 editables.
ButtonsCap == 20
InventoryCap == 10

\* What find_elements gives for an inventory: per element found, whether its
\* attributes can be read (TRUE) or reading them raises (FALSE).
RECURSIVE ReadableLists(_)
ReadableLists(n) ==
    IF n = 0 THEN {<<>>}
    ELSE LET shorter == ReadableLists(n - 1)
         IN  shorter \cup {Append(list, ok) : list \in {l \in shorter : Len(l) = n - 1},
                                              ok \in BOOLEAN}

\* notebooklm.py:205-214: for i, el in enumerate(elements[:cap]), an entry with index i
\* is appended unless reading the element raises (each element has its own try).
RECURSIVE Inventory(_, _, _)
Inventory(elements, cap, k) ==
    IF k > Len(elements) \/ k > cap THEN <<>>
    ELSE (IF elements[k] THEN <<k - 1>> ELSE <<>>) \o Inventory(elements, cap, k + 1)

InitReport ==
    /\ StudioIdle
    /\ ClickIdle
    /\ FindRestIdle
    /\ LoopIdle
    /\ driver_alive \in BOOLEAN
    /\ client_op = "_generate_error_report"
    /\ client_pc = "call"
    /\ client_result = Result("pending")
    /\ client_reports = <<>>
    /\ client_trace = <<>>
    /\ message = <<>>
    /\ divs = <<>>
    /\ \E error \in {None, "Exception"} : report = NoReport(error)
    /\ report_failed = {}
    /\ DownloadIdle
    /\ ProtocolIdle
    /\ TypingIdle
    /\ current_notebook = None
    /\ QueueIdle

\* A step of the report leaves these alone.
ReportStep ==
    /\ UNCHANGED <<client_op, client_reports, message, divs, driver_alive>>
    /\ UNCHANGED notReport

\* notebooklm.py:198-202: inside the try block, only a live driver is asked anything;
\* the address and the title are read first, and an error of theirs goes to the handler
\* of the whole block (256-257).
_generate_error_report_enter ==
    /\ client_op = "_generate_error_report"
    /\ client_pc = "call"
    /\ IF driver_alive
       THEN \E raised \in BOOLEAN :
              /\ client_trace' = Append(client_trace, "page")
              /\ report' = [report EXCEPT !.page_url = ~raised]
              /\ report_failed' = IF raised THEN report_failed \cup {"page"}
                                  ELSE report_failed
              /\ client_pc' = IF raised THEN "build" ELSE "buttons"
       ELSE /\ client_pc' = "build"
            /\ UNCHANGED <<client_trace, report, report_failed>>
    /\ client_result' = client_result
    /\ ReportStep

\* notebooklm.py:203-240: one inventory. find_elements is called in the block's own try:
\* when it raises, the handler at 256 is next and the rest of the block is skipped; an
\* element whose attributes cannot be read is left out of the inventory.
TakeInventory(step, field, cap, next_pc) ==
    /\ client_pc = step
    /\ client_trace' = Append(client_trace, step)
    /\ \/ /\ report_failed' = report_failed \cup {step}
          /\ client_pc' = "build"
          /\ report' = report
       \/ \E elements \in ReadableLists(MaxElements) :
            /\ report' = [report EXCEPT ![field] = Inventory(elements, cap, 1)]
            /\ report_failed' = IF \E k \in 1..Len(elements) : ~elements[k]
                                THEN report_failed \cup {step} ELSE report_failed
            /\ client_pc' = next_pc
    /\ client_result' = client_result
    /\ ReportStep

\* notebooklm.py:203-214
_generate_error_report_buttons ==
    /\ client_op = "_generate_error_report"
    /\ TakeInventory("buttons", "buttons_found", ButtonsCap, "textareas")

\* notebooklm.py:216-227
_generate_error_report_textareas ==
    /\ client_op = "_generate_error_report"
    /\ TakeInventory("textareas", "textareas_found", InventoryCap, "editables")

\* notebooklm.py:229-240
_generate_error_report_editables ==
    /\ client_op = "_generate_error_report"
    /\ TakeInventory("editables", "editables_found", InventoryCap, "screenshot")

\* notebooklm.py:242-255: the screenshot and the HTML dump have a try of their own each;
\* the path is assigned before the file is written and stays in the report when the
\* writing fails.
SaveArtifact(step, field, path, next_pc) ==
    /\ client_pc = step
    /\ client_trace' = Append(client_trace, step)
    /\ report' = [report EXCEPT ![field] = path]
    /\ \E raised \in BOOLEAN :
         report_failed' = IF raised THEN report_failed \cup {step} ELSE report_failed
    /\ client_pc' = next_pc
    /\ client_result' = client_result
    /\ ReportStep

\* notebooklm.py:242-247
_generate_error_report_screenshot ==
    /\ client_op = "_generate_error_report"
    /\ SaveArtifact("screenshot", "screenshot_path", "png", "html")

\* notebooklm.py:249-255
_generate_error_report_html ==
    /\ client_op = "_generate_error_report"
    /\ SaveArtifact("html", "html_path", "html", "build")

\* notebooklm.py:259-297: the ErrorReport is built from the locals and written to a
\* file, in a try of its own; it is returned whether or not the file could be written.
_generate_error_report_build ==
    /\ client_op = "_generate_error_report"
    /\ client_pc = "build"
    /\ \E raised \in BOOLEAN :
         /\ client_trace' = Append(client_trace, "save")
         /\ report_failed' = IF raised THEN report_failed \cup {"save"} ELSE report_failed
    /\ ClientReturns(Result("ErrorReport"))
    /\ report' = report
    /\ ReportStep

NextReport ==
    \/ _generate_error_report_enter
    \/ _generate_error_report_buttons
    \/ _generate_error_report_textareas
    \/ _generate_error_report_editables
    \/ _generate_error_report_screenshot
    \/ _generate_error_report_html
    \/ _generate_error_report_build

SpecReport == InitReport /\ [][NextReport]_vars

\* The steps attempted so far.
Attempted == {client_trace[k] : k \in 1..Len(client_trace)}

ReportReturned ==
    client_op = "_generate_error_report" /\ client_pc = "returned"

\* C18: when one of the capture steps of _generate_error_report (button inventory,
\* textarea inventory, editable inventory, screenshot, HTML dump) fails, every other
\* capture step is attempted all the same and an ErrorReport is returned.
C18_EveryStepAttemptedDespiteFailure ==
    (ReportReturned /\ \E k \in 1..Len(CaptureSteps) : CaptureSteps[k] \in report_failed) =>
        /\ \A k \in 1..Len(CaptureSteps) : CaptureSteps[k] \in Attempted
        /\ client_result.kind = "ErrorReport"

\* What does hold: an element that cannot be read, a screenshot or a dump that cannot
\* be written skip nothing; only find_elements raising ends the capture.
OnlyFindElementsEndsTheCapture ==
    (ReportReturned /\ "buttons" \in Attempted /\ "html" \notin Attempted) =>
        \E step \in {"buttons", "textareas", "editables"} : step \in report_failed

(***************************************************************************)
(* generate_audio_overview (notebooklm.py:701-789) and add_text_source     *)
(* (notebooklm.py:1308-1356). The finders they use (_find_clickable_by_text,*)
(* _find_element_multi_strategy, _find_edit_button_near_text,              *)
(* _find_input_field) and _click_element_safe catch their own errors; what *)
(* is done to an element directly (reading its text, typing) can raise.    *)
(***************************************************************************)

\* A call of a client operation that takes no other input.
InitOperation(op) ==
    /\ StudioIdle
    /\ ClickIdle
    /\ FindRestIdle
    /\ LoopIdle
    /\ ReportIdle
    /\ DownloadIdle
    /\ ProtocolIdle
    /\ TypingIdle
    /\ current_notebook = None
    /\ QueueIdle
    /\ driver_alive \in BOOLEAN
    /\ client_op = op
    /\ client_pc = "call"
    /\ client_result = Result("pending")
    /\ client_reports = <<>>
    /\ client_trace = <<>>
    /\ message = <<>>
    /\ divs = <<>>

\* A step of an operation whose page and arguments stay as they are.
OperationStep ==
    /\ UNCHANGED <<client_op, message, divs, driver_alive>>
    /\ UNCHANGED notClient

\* The operation returns result after generating an error report for action.
ReportsAndReturns(action, result) ==
    /\ client_reports' = Append(client_reports, action)
    /\ ClientReturns(result)

InitAudio == InitOperation("generate_audio_overview")

\* notebooklm.py:706-709: a dead session is reported and gives False.
generate_audio_overview_enter ==
    /\ client_op = "generate_audio_overview"
    /\ client_pc = "call"
    /\ IF driver_alive
       THEN /\ client_pc' = "studio_tab"
            /\ UNCHANGED <<client_result, client_reports>>
       ELSE ReportsAndReturns("generate_audio_overview - driver not alive",
                              Failure("False", "dead_session"))
    /\ client_trace' = client_trace
    /\ OperationStep

\* notebooklm.py:712-728: the Studio tab is clicked when found; the call goes on
\* either way.
generate_audio_overview_studio_tab ==
    /\ client_op = "generate_audio_overview"
    /\ client_pc = "studio_tab"
    /\ \E found \in BOOLEAN :
         client_trace' = client_trace \o
             (IF found THEN <<"find:studio_tab", "click:studio_tab">>
              ELSE <<"find:studio_tab">>)
    /\ client_pc' = "edit_button"
    /\ UNCHANGED <<client_result, client_reports>>
    /\ OperationStep

\* notebooklm.py:730-749: an edit button near the audio item is clicked when found, and
\* that is a success.
generate_audio_overview_edit_button ==
    /\ client_op = "generate_audio_overview"
    /\ client_pc = "edit_button"
    /\ \E found \in BOOLEAN :
         IF found
         THEN /\ client_trace' = client_trace \o <<"find:edit_button", "click:edit_button">>
              /\ ClientReturns(Result("True"))
         ELSE /\ client_trace' = Append(client_trace, "find:edit_button")
              /\ client_pc' = "audio_item"
              /\ client_result' = client_result
    /\ client_reports' = client_reports
    /\ OperationStep

\* notebooklm.py:751-765, 783-789: otherwise the audio item itself is looked up; when
\* found its text is read for the log (unguarded, an error goes to the handler at 786)
\* and it is clicked; when not found the failure is reported.
generate_audio_overview_audio_item ==
    /\ client_op = "generate_audio_overview"
    /\ client_pc = "audio_item"
    /\ \E outcome \in {"found", "not_found", "raised"} :
         CASE outcome = "found" ->
                /\ client_trace' = client_trace \o <<"find:audio_item", "click:audio_item">>
                /\ client_pc' = "generate"
                /\ UNCHANGED <<client_result, client_reports>>
           [] outcome = "not_found" ->
                /\ client_trace' = Append(client_trace, "find:audio_item")
                /\ ReportsAndReturns("generate_audio_overview - Audio/Generate not found",
                                     Failure("False", "not_found"))
           [] outcome = "raised" ->
                /\ client_trace' = Append(client_trace, "find:audio_item")
                /\ ReportsAndReturns("generate_audio_overview",
                                     Failure("False", "exception"))
    /\ OperationStep

\* notebooklm.py:767-784: the Generate button of the dialog is clicked when found;
\* when not found the failure is reported.
generate_audio_overview_generate ==
    /\ client_op = "generate_audio_overview"
    /\ client_pc = "generate"
    /\ \E found \in BOOLEAN :
         IF found
         THEN /\ client_trace' = client_trace \o <<"find:generate", "click:generate">>
              /\ ClientReturns(Result("True"))
              /\ client_reports' = client_reports
         ELSE /\ client_trace' = Append(client_trace, "find:generate")
              /\ ReportsAndReturns("generate_audio_overview - Audio/Generate not found",
                                   Failure("False", "not_found"))
    /\ OperationStep

NextAudio ==
    \/ generate_audio_overview_enter
    \/ generate_audio_overview_studio_tab
    \/ generate_audio_overview_edit_button
    \/ generate_audio_overview_audio_item
    \/ generate_audio_overview_generate

InitAddText == InitOperation("add_text_source")

\* notebooklm.py:1311-1312: a dead session gives False at once.
add_text_source_enter ==
    /\ client_op = "add_text_source"
    /\ client_pc = "call"
    /\ IF driver_alive
       THEN client_pc' = "add_source" /\ client_result' = client_result
       ELSE ClientReturns(Failure("False", "dead_session"))
    /\ UNCHANGED <<client_reports, client_trace>>
    /\ OperationStep

\* notebooklm.py:1314-1325: the add source button is clicked when found; without it
\* a warning is logged and False returned.
add_text_source_add_source ==
    /\ client_op = "add_text_source"
    /\ client_pc = "add_source"
    /\ \E found \in BOOLEAN :
         IF found
         THEN /\ client_trace' = client_trace \o <<"find:add_source", "click:add_source">>
              /\ client_pc' = "paste"
              /\ client_result' = client_result
         ELSE /\ client_trace' = Append(client_trace, "find:add_source")
              /\ ClientReturns(Failure("False", "not_found"))
    /\ client_reports' = client_reports
    /\ OperationStep

\* notebooklm.py:1327-1334: the paste text option is clicked when found; the call goes
\* on either way.
add_text_source_paste ==
    /\ client_op = "add_text_source"
    /\ client_pc = "paste"
    /\ \E found \in BOOLEAN :
         client_trace' = client_trace \o
             (IF found THEN <<"find:paste", "click:paste">> ELSE <<"find:paste">>)
    /\ client_pc' = "text_input"
    /\ UNCHANGED <<client_result, client_reports>>
    /\ OperationStep

\* notebooklm.py:1336-1356: the text is typed into the input field and submitted;
\* without an input field False is returned; clear and send_keys raising goes to the
\* handler at 1354, which logs and returns False.
add_text_source_text_input ==
    /\ client_op = "add_text_source"
    /\ client_pc = "text_input"
    /\ \E outcome \in {"typed", "not_found", "raised"} :
         CASE outcome = "typed" ->
                /\ client_trace' = client_trace \o
                       <<"find:text_input", "send_keys:text", "send_keys:submit">>
                /\ ClientReturns(Result("True"))
           [] outcome = "not_found" ->
                /\ client_trace' = Append(client_trace, "find:text_input")
                /\ ClientReturns(Failure("False", "not_found"))
           [] outcome = "raised" ->
                /\ client_trace' = client_trace \o <<"find:text_input", "send_keys:text">>
                /\ ClientReturns(Failure("False", "exception"))
    /\ client_reports' = client_reports
    /\ OperationStep

NextAddText ==
    \/ add_text_source_enter
    \/ add_text_source_add_source
    \/ add_text_source_paste
    \/ add_text_source_text_input

\* One call of any of the four operations that work on an open notebook.
InitClient == InitAudio \/ InitChat \/ InitUpload \/ InitAddText

NextClient == NextAudio \/ NextChat \/ NextUpload \/ NextAddText

SpecClient == InitClient /\ [][NextClient]_vars

\* The causes of a negative result that are terminal failures: an element that cannot
\* be found, a dead session, a caught exception.
TerminalCauses == {"not_found", "dead_session", "exception"}

TerminalFailure ==
    /\ client_op \in {"generate_audio_overview", "send_chat_message",
                      "upload_file_source", "add_text_source"}
    /\ client_pc = "returned"
    /\ client_result.kind \in {"False", "None"}
    /\ client_result.cause \in TerminalCauses

\* C19: every terminal failure return (False or None for an element not found, a dead
\* session or a caught exception) of generate_audio_overview, send_chat_message,
\* upload_file_source and add_text_source comes after an error report generated in
\* the same call.
C19_TerminalFailureIsReported ==
    TerminalFailure => client_reports # <<>>

\* What does hold: generate_audio_overview reports each of its terminal failures
\* (notebooklm.py:708, 783, 788).
AudioFailureIsReported ==
    (TerminalFailure /\ client_op = "generate_audio_overview") => Len(client_reports) = 1

(***************************************************************************)
(* The wait loops: the login wait of navigate_to_notebooklm                *)
(* (notebooklm.py:512-567), the completion poll of upload_file_source      *)
(* (1215-1262) and the poll of _manual_upload_fallback (1289-1306). The    *)
(* client runs one step after another for as long as it has one to run,   *)
(* which is the fairness assumed here; each sleep advances the clock.      *)
(***************************************************************************)
InitWaits == InitNavigate \/ InitUpload

NextWaits == NextNavigate \/ NextUpload

SpecWaits == InitWaits /\ [][NextWaits]_vars /\ WF_vars(NextWaits)

\* _manual_upload_fallback was entered.
InFallback == "_manual_upload_fallback" \in Attempted

\* The login wait runs at most max_wait / 2 times: the counter grows by at least 2 in
\* each iteration that goes on.
LoginWaitBounded ==
    client_op = "navigate_to_notebooklm" =>
        /\ iterations * 2 <= max_wait
        /\ client_pc = "login_wait" => iterations * 2 <= waited

\* An iteration of the completion poll starts less than timeout seconds after the
\* loop's start, with 2 seconds or more for each iteration before it; the manual
\* wait likewise, with 5 seconds for each.
PollBounded ==
    (client_op = "upload_file_source" /\ iterations > 0) =>
        (IF InFallback THEN 5 ELSE 2) * (iterations - 1) < wait_timeout

\* A loop whose condition never became true gives False: the login wait that used up
\* its counter, the upload that never saw a source.
NegativeWhenNeverTrue ==
    /\ (client_op = "navigate_to_notebooklm" /\ client_pc = "returned"
          /\ waited >= max_wait) => client_result.kind = "False"
    /\ (UploadReturned /\ source_count = 0) => client_result.kind = "False"

\* C20: every wait loop terminates: the login wait of navigate_to_notebooklm (at most
\* 60 iterations), the completion poll of upload_file_source and the poll of
\* _manual_upload_fallback each end after a bounded number of iterations, the call
\* returns, and it returns False when the loop's condition never became true.
C20_WaitLoopsTerminate ==
    /\ [](LoginWaitBounded /\ PollBounded /\ NegativeWhenNeverTrue)
    /\ <>(client_pc = "returned")

\* The manual wait went through its iterations, ran out of time and gave False.
C20_Witness ==
    /\ UploadReturned
    /\ InFallback
    /\ iterations > 0
    /\ ~PollGoesOn(now, start_time, wait_timeout)
    /\ client_result.kind = "False"

\* The login wait went through all of its 60 iterations and gave False.
LoginWaitRanOut ==
    /\ client_op = "navigate_to_notebooklm"
    /\ client_pc = "returned"
    /\ iterations * 2 = max_wait
    /\ client_result = Failure("False", "timeout")

\* The completion poll ran out of time and gave False.
PollRanOut ==
    /\ UploadReturned
    /\ ~InFallback
    /\ iterations > 0
    /\ client_result = Failure("False", "timeout")

(***************************************************************************)
(* download_all_materials (studio_automator.py:1083-1160) with             *)
(* download_item (955-1017) and list_generated_materials (1020-1081).      *)
(***************************************************************************)

\* A material as list_generated_materials describes it (1063-1069); a name is a text
\* of the page, the status is 'generating' or 'ready'.
StudioMaterials ==
    {[name |-> name, type |-> type, status |-> status] :
        name \in {"Podcast"}, type \in {"audio", "video"},
        status \in {"generating", "ready"}}
    \cup {[name |-> "Map", type |-> "mindmap", status |-> "ready"]}

\* The lists it can return, of up to n materials; on an error it returns what it
\* collected so far (1078-1081), the empty list when nothing was.
RECURSIVE MaterialListings(_)
MaterialListings(n) ==
    IF n = 0 THEN {<<>>}
    ELSE LET shorter == MaterialListings(n - 1)
         IN  shorter \cup {Append(l, m) : l \in {x \in shorter : Len(x) = n - 1},
                                           m \in StudioMaterials}

\* What the page does to one download_item call: the Mehr button is missing; the
\* Herunterladen option was clicked; a share dialog opened instead; a delete
\* confirmation opened instead; the menu had no such option; something raised.
DownloadOutcomes ==
    {"no_mehr", "downloaded", "share_dialog", "delete_dialog", "no_option", "raised"}

\* download_item (955-1017): the dict it returns.
download_item(item_name, item_type, outcome) ==
    LET result == [success |-> FALSE, item_name |-> item_name, item_type |-> item_type,
                   filename |-> None, error |-> None]
    IN  CASE outcome = "no_mehr" -> [result EXCEPT !.error = "Could not find Mehr button"]
          [] outcome = "downloaded" ->
               [result EXCEPT !.success = TRUE,
                              !.filename = IF item_type = "video" THEN "mp4"
                                           ELSE IF item_type = "audio" THEN "mp3"
                                           ELSE "png"]
          [] outcome = "share_dialog" ->
               [result EXCEPT !.error = "No download option (share only)"]
          [] outcome = "delete_dialog" ->
               [result EXCEPT !.error = "Accidentally triggered delete dialog"]
          [] outcome = "no_option" ->
               [result EXCEPT !.error = "Download option not found in menu"]
          [] outcome = "raised" -> [result EXCEPT !.error = "exception"]

\* An entry of results['items']: the material's own keys and the outcome (1123-1145).
DownloadEntry(material, result, detail) ==
    [name |-> material.name, type |-> material.type, status |-> material.status,
     result |-> result, detail |-> detail]

\* A call download_item(material['name'], material['type']) for the material at
\* position index of the listing (studio_automator.py:1130).
DownloadCall(index, material) ==
    [index |-> index, item_name |-> material.name, item_type |-> material.type]

InitDownload ==
    /\ StudioIdle
    /\ ClickIdle
    /\ FindIdle
    /\ ClientIdle
    /\ LoopIdle
    /\ ReportIdle
    /\ ProtocolIdle
    /\ TypingIdle
    /\ current_notebook = None
    /\ QueueIdle
    /\ download_pc = "call"
    /\ studio_materials = <<>>
    /\ download_results = NoDownloads
    /\ download_i = 1
    /\ download_calls = <<>>

notDownload == <<studioVars, clickVars, findVars, clientVars, loopVars, reportVars,
                 protocolVars, typingVars,
                 current_notebook, queueVars>>

\* studio_automator.py:1093-1111: the materials are listed and counted; with none the
\* results are returned at once.
download_all_materials_enter ==
    /\ download_pc = "call"
    /\ \E listing \in MaterialListings(MaxItems) :
         /\ studio_materials' = listing
         /\ download_results' = [download_results EXCEPT !.total = Len(listing)]
         /\ download_pc' = IF listing = <<>> THEN "returned" ELSE "loop"
    /\ download_i' = 1
    /\ download_calls' = download_calls
    /\ UNCHANGED notDownload

\* A variant of the loop body that counts a material still generating as skipped
\* without recording it in items.
download_all_materials_item_unlisted ==
    /\ download_pc = "loop"
    /\ LET material == studio_materials[download_i]
       IN  IF material.status = "generating"
           THEN download_results' = [download_results EXCEPT !.skipped = @ + 1]
           ELSE \E outcome \in DownloadOutcomes :
                  LET dl_result == download_item(material.name, material.type, outcome)
                  IN  download_results' =
                        IF dl_result.success
                        THEN [download_results EXCEPT
                                 !.downloaded = @ + 1,
                                 !.items = Append(@, DownloadEntry(material, "success",
                                                                   dl_result.filename))]
                        ELSE [download_results EXCEPT
                                 !.failed = @ + 1,
                                 !.items = Append(@, DownloadEntry(material, "failed",
                                                                   dl_result.error))]
    /\ download_calls' =
         IF studio_materials[download_i].status = "generating" THEN download_calls
         ELSE Append(download_calls, DownloadCall(download_i, studio_materials[download_i]))
    /\ download_i' = download_i + 1
    /\ download_pc' = IF download_i + 1 <= Len(studio_materials) THEN "loop" ELSE "returned"
    /\ UNCHANGED studio_materials
    /\ UNCHANGED notDownload

\* A variant of the loop body that downloads every material, whatever its status.
download_all_materials_item_eager ==
    /\ download_pc = "loop"
    /\ LET material == studio_materials[download_i]
       IN  \E outcome \in DownloadOutcomes :
             LET dl_result == download_item(material.name, material.type, outcome)
             IN  download_results' =
                   IF dl_result.success
                   THEN [download_results EXCEPT
                            !.downloaded = @ + 1,
                            !.items = Append(@, DownloadEntry(material, "success",
                                                              dl_result.filename))]
                   ELSE [download_results EXCEPT
                            !.failed = @ + 1,
                            !.items = Append(@, DownloadEntry(material, "failed",
                                                              dl_result.error))]
    /\ download_calls' = Append(download_calls,
                                DownloadCall(download_i, studio_materials[download_i]))
    /\ download_i' = download_i + 1
    /\ download_pc' = IF download_i + 1 <= Len(studio_materials) THEN "loop" ELSE "returned"
    /\ UNCHANGED studio_materials
    /\ UNCHANGED notDownload

\* studio_automator.py:1113-1160: one round of the loop: a material still generating
\* is skipped, any other is downloaded and counted as downloaded or failed; after the
\* last one the summary is logged and the results returned.
download_all_materials_item ==
    /\ download_pc = "loop"
    /\ LET material == studio_materials[download_i]
       IN  IF material.status = "generating"
           THEN download_results' =
                  [download_results EXCEPT
                      !.skipped = @ + 1,
                      !.items = Append(@, DownloadEntry(material, "skipped",
                                                        "still generating"))]
           ELSE \E outcome \in DownloadOutcomes :
                  LET dl_result == download_item(material.name, material.type, outcome)
                  IN  download_results' =
                        IF dl_result.success
                        THEN [download_results EXCEPT
                                 !.downloaded = @ + 1,
                                 !.items = Append(@, DownloadEntry(material, "success",
                                                                   dl_result.filename))]
                        ELSE [download_results EXCEPT
                                 !.failed = @ + 1,
                                 !.items = Append(@, DownloadEntry(material, "failed",
                                                                   dl_result.error))]
    /\ download_calls' =
         IF studio_materials[download_i].status = "generating" THEN download_calls
         ELSE Append(download_calls, DownloadCall(download_i, studio_materials[download_i]))
    /\ download_i' = download_i + 1
    /\ download_pc' = IF download_i + 1 <= Len(studio_materials) THEN "loop" ELSE "returned"
    /\ UNCHANGED studio_materials
    /\ UNCHANGED notDownload

NextDownload ==
    \/ download_all_materials_enter
    \/ download_all_materials_item

SpecDownload == InitDownload /\ [][NextDownload]_vars

\* C22: when download_all_materials returns, downloaded + skipped + failed = total =
\* the number of entries in items, and every listed material appears in items exactly
\* once (the k-th entry is the k-th material) with result 'success', 'skipped' or
\* 'failed'.
C22_CountsAddUp ==
    download_pc = "returned" =>
        LET r == download_results
        IN  /\ r.downloaded + r.skipped + r.failed = r.total
            /\ r.total = Len(r.items)
            /\ Len(r.items) = Len(studio_materials)
            /\ \A k \in 1..Len(r.items) :
                 /\ r.items[k].name = studio_materials[k].name
                 /\ r.items[k].type = studio_materials[k].type
                 /\ r.items[k].status = studio_materials[k].status
                 /\ r.items[k].result \in {"success", "skipped", "failed"}
            /\ r.skipped = Cardinality({k \in 1..Len(r.items) : r.items[k].result = "skipped"})
            /\ r.failed = Cardinality({k \in 1..Len(r.items) : r.items[k].result = "failed"})

\* C22 witness: of two materials one was skipped as still generating and the download
\* of the other failed.
C22_Witness ==
    /\ download_pc = "returned"
    /\ download_results.total = 2
    /\ download_results.skipped = 1
    /\ download_results.failed = 1
    /\ download_results.items[1].result = "skipped"

(***************************************************************************)
(* CollaborationProtocol.claim_task (agent_orchestrator.py:417-428) with   *)
(* _load_state (346-359) and _save_state (361-365). The agents are         *)
(* separate programs sharing the state file; each call is a load, a check  *)
(* and change of the loaded copy, and a save that opens the file for       *)
(* writing (which empties it) and then writes the copy.                    *)
(***************************************************************************)

\* A task of the shared state, as AgentTask.to_dict gives it; only the keys that
\* claim_task reads or writes.
SharedTask(task_id, status, assigned_agent) ==
    [task_id |-> task_id, status |-> status, assigned_agent |-> assigned_agent]

\* The task lists the file can hold when the agents start.
InitialTaskLists ==
    {<<>>,
     <<SharedTask("t1", "pending", None)>>,
     <<SharedTask("t2", "pending", None), SharedTask("t1", "pending", None)>>,
     <<SharedTask("t1", "assigned", "human")>>}

\* The file with a state in it, and the file open for writing, not yet written.
Stored(tasks) == [readable |-> TRUE, tasks |-> tasks]
Truncated == [readable |-> FALSE, tasks |-> <<>>]

\* _load_state (346-359): the file's state, or the default state (without tasks) when
\* the file cannot be parsed.
_load_state(file) == IF file.readable THEN file.tasks ELSE <<>>

\* Position of the first task with the given id, 0 when there is none (419-420).
FirstTask(tasks, task_id) ==
    IF \E k \in 1..Len(tasks) : tasks[k].task_id = task_id
    THEN CHOOSE k \in 1..Len(tasks) :
             tasks[k].task_id = task_id /\ \A m \in 1..(k - 1) : tasks[m].task_id # task_id
    ELSE 0

InitProtocol ==
    /\ StudioIdle
    /\ ClickIdle
    /\ FindIdle
    /\ ClientIdle
    /\ LoopIdle
    /\ ReportIdle
    /\ DownloadIdle
    /\ TypingIdle
    /\ current_notebook = None
    /\ QueueIdle
    /\ \E tasks \in InitialTaskLists : state_file = Stored(tasks)
    /\ agent_pc = [a \in AgentType |-> "idle"]
    /\ agent_state = [a \in AgentType |-> <<>>]
    /\ agent_ret = [a \in AgentType |-> None]

notProtocol == <<studioVars, clickVars, findVars, clientVars, loopVars, reportVars,
                 downloadVars, typingVars,
                 current_notebook, queueVars>>

\* agent_orchestrator.py:419: claim_task("t1", a) loads the state. At most MaxAgents
\* agents call.
claim_task_load(a) ==
    /\ agent_pc[a] = "idle"
    /\ Cardinality({b \in AgentType : agent_pc[b] # "idle"}) < MaxAgents
    /\ agent_state' = [agent_state EXCEPT ![a] = _load_state(state_file)]
    /\ agent_pc' = [agent_pc EXCEPT ![a] = "loaded"]
    /\ UNCHANGED <<state_file, agent_ret>>
    /\ UNCHANGED notProtocol

\* agent_orchestrator.py:420-428: the task is looked up in the loaded state; a pending
\* one is marked assigned to the agent, in the loaded copy, and the copy is to be
\* saved; otherwise False is returned.
claim_task_check(a) ==
    /\ agent_pc[a] = "loaded"
    /\ LET k == FirstTask(agent_state[a], "t1")
       IN  IF k > 0 /\ agent_state[a][k].status = "pending"
           THEN /\ agent_state' = [agent_state EXCEPT
                                      ![a][k] = SharedTask("t1", "assigned", a)]
                /\ agent_pc' = [agent_pc EXCEPT ![a] = "save"]
                /\ agent_ret' = agent_ret
           ELSE /\ agent_ret' = [agent_ret EXCEPT ![a] = "False"]
                /\ agent_pc' = [agent_pc EXCEPT ![a] = "returned"]
                /\ agent_state' = agent_state
    /\ UNCHANGED state_file
    /\ UNCHANGED notProtocol

\* agent_orchestrator.py:364: _save_state opens the file for writing.
_save_state_open(a) ==
    /\ agent_pc[a] = "save"
    /\ state_file' = Truncated
    /\ agent_pc' = [agent_pc EXCEPT ![a] = "write"]
    /\ UNCHANGED <<agent_state, agent_ret>>
    /\ UNCHANGED notProtocol

\* agent_orchestrator.py:365, 426: the loaded copy is written and True returned.
_save_state_dump(a) ==
    /\ agent_pc[a] = "write"
    /\ state_file' = Stored(agent_state[a])
    /\ agent_ret' = [agent_ret EXCEPT ![a] = "True"]
    /\ agent_pc' = [agent_pc EXCEPT ![a] = "returned"]
    /\ UNCHANGED agent_state
    /\ UNCHANGED notProtocol

NextProtocol ==
    \E a \in AgentType :
        \/ claim_task_load(a)
        \/ claim_task_check(a)
        \/ _save_state_open(a)
        \/ _save_state_dump(a)

SpecProtocol == InitProtocol /\ [][NextProtocol]_vars

\* The agents whose claim_task returned True.
Claimers == {a \in AgentType : agent_ret[a] = "True"}

\* C23: claim_task is atomic: when two agents call it for the same pending task, with
\* their load, change and save steps interleaved in any way, at most one call returns
\* True, and the assigned_agent stored is the agent whose call returned True.
C23_ClaimIsAtomic ==
    /\ Cardinality(Claimers) <= 1
    /\ \A a \in Claimers :
         (state_file.readable /\ \A b \in AgentType : agent_pc[b] \in {"idle", "returned"}) =>
             LET k == FirstTask(state_file.tasks, "t1")
             IN  k > 0 /\ state_file.tasks[k].assigned_agent = a

\* What does hold: a call that runs alone, from its load to its return, claims a
\* pending task for its agent and nobody else's.
ClaimsWhenAlone ==
    \A a \in AgentType :
        (agent_ret[a] = "True" /\ \A b \in AgentType \ {a} : agent_pc[b] = "idle") =>
            LET k == FirstTask(state_file.tasks, "t1")
            IN  k > 0 /\ state_file.tasks[k] = SharedTask("t1", "assigned", a)


\* The positions of the listing whose material is not still generating, in order.
Downloadable == SelectSeq([k \in 1..Len(studio_materials) |-> k],
                          LAMBDA k : studio_materials[k].status # "generating")

\* C35: download_all_materials never calls download_item for a material whose status
\* is 'generating': such a material is counted as skipped and recorded with result
\* 'skipped'; for every other listed material download_item is called exactly once,
\* with its name and type, in listing order.
C35_GeneratingIsNeverDownloaded ==
    /\ \A c \in 1..Len(download_calls) :
         studio_materials[download_calls[c].index].status # "generating"
    /\ download_pc = "returned" =>
         /\ Len(download_calls) = Len(Downloadable)
         /\ \A c \in 1..Len(download_calls) :
              download_calls[c] =
                  DownloadCall(Downloadable[c], studio_materials[Downloadable[c]])
         /\ \A k \in 1..Len(studio_materials) :
              studio_materials[k].status = "generating" =>
                  download_results.items[k].result = "skipped"
         /\ download_results.skipped =
                Cardinality({k \in 1..Len(studio_materials) :
                                studio_materials[k].status = "generating"})

\* C35 witness: of two materials the first is still generating and was skipped, the
\* second was downloaded by the one call made.
C35_Witness ==
    /\ download_pc = "returned"
    /\ Len(studio_materials) = 2
    /\ studio_materials[1].status = "generating"
    /\ studio_materials[2].status = "ready"
    /\ Len(download_calls) = 1
    /\ download_calls[1].index = 2
    /\ download_results.items[1].result = "skipped"
    /\ download_results.items[2].result = "success"

\* ============================================================ chunked typing
\* notebooklm.py:1341 and studio_automator.py:1316
chunk_size == 5000

\* text[k:]
RECURSIVE Drop(_, _)
Drop(t, k) ==
    IF k = 0 \/ t = <<>> THEN t
    ELSE IF Head(t).n > k THEN <<Run(Head(t).c, Head(t).n - k)>> \o Tail(t)
    ELSE Drop(Tail(t), k - Head(t).n)

Slice_inclusive(t, a, b) == Take(Drop(t, a), b - a + 1)
\* text[a:b]
Slice(t, a, b) == Take(Drop(t, a), b - a)

\* The lengths of a run of one character in the texts typed: around one chunk and a
\* whole number of chunks.
RunLengths == {1, chunk_size - 1, chunk_size, chunk_size + 1, 2 * chunk_size}

\* The texts typed: up to MaxRuns runs of two characters in turn.
RECURSIVE TextsOfRuns(_)
TextsOfRuns(n) ==
    IF n = 0 THEN {<<>>}
    ELSE LET shorter == TextsOfRuns(n - 1)
         IN  shorter \cup
             {Append(t, Run(c, m)) : t \in {u \in shorter : Len(u) = n - 1},
                                     c \in {"a", "b"}, m \in RunLengths}

TextsToType == {t \in TextsOfRuns(MaxRuns) : Norm(t) = t}

\* add_text_source(text) and add_source_text(text) are called with a text.
InitTyping ==
    /\ source_text \in TextsToType
    /\ typed = <<>>
    /\ chunk_start = 0
    /\ typing_op \in {"add_text_source", "add_source_text"}
    /\ typing_pc = "call"
    /\ typing_ret = None
    /\ StudioIdle /\ ClickIdle /\ FindIdle /\ ClientIdle /\ LoopIdle
    /\ ReportIdle /\ DownloadIdle /\ ProtocolIdle
    /\ current_notebook = None
    /\ QueueIdle

notTyping == <<studioVars, clickVars, findVars, clientVars, loopVars, reportVars,
               downloadVars, protocolVars,
                 current_notebook, queueVars>>

\* The method returns.
TypingReturns(ret) ==
    /\ typing_ret' = ret
    /\ typing_pc' = "returned"

\* One turn of "for i in range(0, len(text), chunk_size)": the next chunk is sent and i
\* moves on by chunk_size; send_keys raising ends the method with False.
SendChunk ==
    /\ chunk_start < TextLen(source_text)
    /\ \E raised \in BOOLEAN :
         IF raised
         THEN /\ TypingReturns("False")
              /\ UNCHANGED <<typed, chunk_start>>
         ELSE /\ typed' = Append(typed, Slice(source_text, chunk_start,
                                              chunk_start + chunk_size))
              /\ chunk_start' = chunk_start + chunk_size
              /\ UNCHANGED <<typing_pc, typing_ret>>

\* notebooklm.py:1308-1339, 1352-1356: up to the input field being cleared. A dead
\* session, no add source button, no input field and an exception all give False.
add_text_source_clear ==
    /\ typing_op = "add_text_source"
    /\ typing_pc = "call"
    /\ \E ok \in BOOLEAN :
         IF ok
         THEN typing_pc' = "chunks" /\ typing_ret' = typing_ret
         ELSE TypingReturns("False")
    /\ UNCHANGED <<source_text, typed, chunk_start, typing_op>>
    /\ UNCHANGED notTyping

\* notebooklm.py:1340-1344
add_text_source_send_keys ==
    /\ typing_op = "add_text_source"
    /\ typing_pc = "chunks"
    /\ SendChunk
    /\ UNCHANGED <<source_text, typing_op>>
    /\ UNCHANGED notTyping

\* notebooklm.py:1346-1350, 1354-1356: after the loop Ctrl+Enter is sent and True
\* returned; send_keys raising gives False.
add_text_source_submit ==
    /\ typing_op = "add_text_source"
    /\ typing_pc = "chunks"
    /\ chunk_start >= TextLen(source_text)
    /\ \E raised \in BOOLEAN :
         TypingReturns(IF raised THEN "False" ELSE "True")
    /\ UNCHANGED <<source_text, typed, chunk_start, typing_op>>
    /\ UNCHANGED notTyping

\* studio_automator.py:1246-1315, 1335-1337: up to the input field being cleared. No
\* add button, no input field and an exception all give False.
add_source_text_clear ==
    /\ typing_op = "add_source_text"
    /\ typing_pc = "call"
    /\ \E ok \in BOOLEAN :
         IF ok
         THEN typing_pc' = "chunks" /\ typing_ret' = typing_ret
         ELSE TypingReturns("False")
    /\ UNCHANGED <<source_text, typed, chunk_start, typing_op>>
    /\ UNCHANGED notTyping

\* studio_automator.py:1316-1319
add_source_text_send_keys ==
    /\ typing_op = "add_source_text"
    /\ typing_pc = "chunks"
    /\ SendChunk
    /\ UNCHANGED <<source_text, typing_op>>
    /\ UNCHANGED notTyping

\* studio_automator.py:1321-1333, 1335-1337: after the loop the submit button is
\* clicked, or Ctrl+Enter sent when there is none, and True returned; an exception
\* gives False.
add_source_text_submit ==
    /\ typing_op = "add_source_text"
    /\ typing_pc = "chunks"
    /\ chunk_start >= TextLen(source_text)
    /\ \E submit_btn, raised \in BOOLEAN :
         TypingReturns(IF raised THEN "False" ELSE "True")
    /\ UNCHANGED <<source_text, typed, chunk_start, typing_op>>
    /\ UNCHANGED notTyping

NextTyping ==
    \/ add_text_source_clear
    \/ add_text_source_send_keys
    \/ add_text_source_submit
    \/ add_source_text_clear
    \/ add_source_text_send_keys
    \/ add_source_text_submit

SpecTyping == InitTyping /\ [][NextTyping]_vars

\* The chunks sent, one after the other.
RECURSIVE Joined(_)
Joined(chunks) ==
    IF chunks = <<>> THEN <<>> ELSE Head(chunks) \o Joined(Tail(chunks))

\* The loop is over: i has reached the end of the text.
ChunksAllSent == typing_pc # "call" /\ chunk_start >= TextLen(source_text)

\* C29: chunked typing is lossless: in add_text_source and in add_source_text every
\* chunk sent has between 1 and 5000 characters, the chunks sent so far, joined in
\* order, are the text up to the loop variable, and once the loop is over they are the
\* whole text, nothing dropped, doubled or out of place; an empty text sends no chunk.
C29_ChunkedTypingIsLossless ==
    /\ \A k \in 1..Len(typed) :
         TextLen(typed[k]) >= 1 /\ TextLen(typed[k]) <= chunk_size
    /\ Norm(Joined(typed)) = Take(source_text, chunk_start)
    /\ ChunksAllSent => Norm(Joined(typed)) = source_text
    /\ source_text = <<>> => typed = <<>>

\* A text longer than two chunks that does not end on a chunk boundary has been typed
\* whole, the last chunk shorter than the others, and the method returned True.
C29_Witness ==
    /\ typing_ret = "True"
    /\ TextLen(source_text) > 2 * chunk_size
    /\ Len(typed) = 3
    /\ TextLen(typed[3]) < chunk_size
    /\ Len(source_text) = 2

\* ============================================================ a dead session
\* The operations of the client that ask is_driver_alive on entry.
SessionOperations ==
    {"send_chat_message", "upload_file_source", "add_text_source",
     "navigate_to_notebooklm", "navigate_to_notebook"}

\* What an operation gives when it fails.
Negative(op) == IF op = "send_chat_message" THEN "None" ELSE "False"

\* One of the operations, or one of the resolvers, is called on a client that may
\* hold a notebook and whose session may be dead. The resolvers are called with
\* their default timeout of 10 seconds.
InitSession ==
    /\ StudioIdle /\ ClickIdle /\ ReportIdle /\ DownloadIdle /\ ProtocolIdle /\ TypingIdle
    /\ current_notebook \in {None, "Existing Notebook"}
    /\ QueueIdle
    /\ driver_alive \in BOOLEAN
    /\ \/ /\ FindRestIdle
          /\ client_op \in SessionOperations
          /\ client_pc = (IF client_op = "navigate_to_notebooklm" THEN "navigate" ELSE "call")
          /\ client_result = Result("pending")
          /\ client_reports = <<>>
          /\ client_trace = <<>>
          /\ message \in (IF client_op = "send_chat_message" THEN ChatMessages ELSE {<<>>})
          /\ divs = <<>>
          /\ now = 0
          /\ start_time = 0
          /\ waited = 0
          /\ iterations = 0
          /\ initial_sources = 0
          /\ wait_timeout \in (IF client_op = "upload_file_source"
                               THEN 0..MaxWaitTimeout ELSE {0})
          /\ source_count \in (IF client_op = "upload_file_source" THEN 0..MaxCount ELSE {0})
          /\ count_before = source_count
       \/ /\ ClientIdle
          /\ LoopIdle
          /\ find_which \in Resolvers
          /\ \E n \in 0..MaxStrategies :
               /\ find_which = "_find_clickable_by_text" => n >= 1
               /\ dom_matches \in (IF driver_alive THEN DomsOfLen(n) ELSE {NoMatches(n)})
          /\ dom_vis \in [Elements -> Visibilities]
          /\ find_pc = "call"
          /\ find_s = 1
          /\ find_result = NoElement
          /\ find_dumped = FALSE
          /\ find_timeout = 10
          /\ find_waits = <<>>

\* A variant of navigate_to_notebook without the liveness check: the page request of
\* a dead session raises and the handler returns False.
navigate_to_notebook_unguarded ==
    /\ client_op = "navigate_to_notebook"
    /\ client_pc = "call"
    /\ \E outcome \in {"raised", "not_ready", "elsewhere", "notebooklm"} :
         /\ ~driver_alive => outcome = "raised"
         /\ CASE outcome = "raised" ->
                   /\ client_trace' = Append(client_trace, "get:notebook_url")
                   /\ ClientReturns(Failure("False", "exception"))
                   /\ UNCHANGED <<current_notebook, now>>
              [] outcome = "not_ready" ->
                   /\ client_trace' = client_trace \o <<"get:notebook_url", "readyState">>
                   /\ ClientReturns(Failure("False", "exception"))
                   /\ now' = now + 35
                   /\ current_notebook' = current_notebook
              [] outcome = "elsewhere" ->
                   /\ client_trace' = client_trace \o <<"get:notebook_url", "readyState">>
                   /\ ClientReturns(Failure("False", "miss"))
                   /\ now' = now + 10
                   /\ current_notebook' = current_notebook
              [] outcome = "notebooklm" ->
                   /\ client_trace' = client_trace \o
                        <<"get:notebook_url", "readyState", "_dismiss_overlays",
                          "_debug_dump_page_info">>
                   /\ ClientReturns(Result("True"))
                   /\ now' = now + 10
                   /\ current_notebook' = "Existing Notebook"
    /\ UNCHANGED <<client_op, client_reports, message, divs, driver_alive>>
    /\ UNCHANGED <<start_time, wait_timeout, waited, iterations, source_count,
                   count_before, initial_sources>>
    /\ UNCHANGED notSessionNorNotebook

\* notebooklm.py:573-608: False for a dead session. Otherwise the page is requested
\* and, after 5 seconds, awaited for up to 30 (a request that raises and a page that
\* does not get ready go to the handler at 606, False); after 5 more seconds a page
\* of NotebookLM becomes current_notebook, overlays are dismissed, the page is dumped
\* and True returned; any other page gives False.
navigate_to_notebook ==
    /\ client_op = "navigate_to_notebook"
    /\ client_pc = "call"
    /\ IF ~driver_alive
       THEN /\ ClientReturns(Failure("False", "dead_session"))
            /\ UNCHANGED <<client_trace, current_notebook, now>>
       ELSE \E outcome \in {"raised", "not_ready", "elsewhere", "notebooklm"} :
              CASE outcome = "raised" ->
                     /\ client_trace' = Append(client_trace, "get:notebook_url")
                     /\ ClientReturns(Failure("False", "exception"))
                     /\ UNCHANGED <<current_notebook, now>>
                [] outcome = "not_ready" ->
                     /\ client_trace' = client_trace \o <<"get:notebook_url", "readyState">>
                     /\ ClientReturns(Failure("False", "exception"))
                     /\ now' = now + 35
                     /\ current_notebook' = current_notebook
                [] outcome = "elsewhere" ->
                     /\ client_trace' = client_trace \o <<"get:notebook_url", "readyState">>
                     /\ ClientReturns(Failure("False", "miss"))
                     /\ now' = now + 10
                     /\ current_notebook' = current_notebook
                [] outcome = "notebooklm" ->
                     /\ client_trace' = client_trace \o
                          <<"get:notebook_url", "readyState", "_dismiss_overlays",
                            "_debug_dump_page_info">>
                     /\ ClientReturns(Result("True"))
                     /\ now' = now + 10
                     /\ current_notebook' = "Existing Notebook"
    /\ UNCHANGED <<client_op, client_reports, message, divs, driver_alive>>
    /\ UNCHANGED <<start_time, wait_timeout, waited, iterations, source_count,
                   count_before, initial_sources>>
    /\ UNCHANGED notSessionNorNotebook

NextSession ==
    \/ NextChat
    \/ NextUpload
    \/ NextAddText
    \/ NextNavigate
    \/ navigate_to_notebook
    \/ NextResolve

SpecSession == InitSession /\ [][NextSession]_vars

\* C34: with a dead session at entry, send_chat_message, upload_file_source,
\* add_text_source, navigate_to_notebooklm, navigate_to_notebook and the resolvers
\* return their negative result in their first step, without a click, a typing, a page
\* request, a lookup, a page dump, an error report or a sleep, and current_notebook
\* stays as it was.
C34_DeadSessionTouchesNothing ==
    /\ [](~driver_alive =>
            /\ client_trace = <<>>
            /\ client_reports = <<>>
            /\ find_waits = <<>>
            /\ find_s = 1
            /\ ~find_dumped
            /\ now = 0
            /\ (client_op \in SessionOperations /\ client_pc = "returned") =>
                   client_result = Failure(Negative(client_op), "dead_session")
            /\ (find_which \in Resolvers /\ find_pc = "returned") =>
                   find_result = NoElement)
    /\ [][~driver_alive =>
            /\ current_notebook' = current_notebook
            /\ client_op \in SessionOperations => client_pc' = "returned"
            /\ find_which \in Resolvers => find_pc' = "returned"]_vars

\* C34 witness: navigate_to_notebook was called with a dead session on a client that
\* holds a notebook; it returned False and the notebook is still held.
C34_Witness ==
    /\ ~driver_alive
    /\ client_op = "navigate_to_notebook"
    /\ client_pc = "returned"
    /\ client_result = Failure("False", "dead_session")
    /\ client_trace = <<>>
    /\ current_notebook = "Existing Notebook"

\* ============================================================ TaskQueue
\* The ids tasks are added under; "t0" is an id no task is ever added under.
TaskIds == {"t1", "t2"}

\* AgentTask (agent_orchestrator.py:155-171): a new task is pending and unassigned.
AgentTask(task_id, role, target_files, priority, dependencies) ==
    [task_id |-> task_id, role |-> role, target_files |-> target_files,
     priority |-> priority, dependencies |-> dependencies,
     assigned_agent |-> None, status |-> "pending"]

\* The tasks handed to add_task.
TasksToAdd ==
    { AgentTask("t1", "analyzer", <<"src/generators/notebooklm.py">>, 0, <<>>),
      AgentTask("t2", "documenter", <<"README.md">>, 1, <<"t1">>),
      AgentTask("t2", "analyzer", <<>>, 0, <<"t0">>) }

\* AGENT_CAPABILITIES (agent_orchestrator.py:77-152): the agents that have an entry,
\* their preferred roles, and which of the files above their patterns match.
CapableAgents == {"junie", "claude_code", "gemini"}

preferred_roles(agent) ==
    CASE agent = "junie" -> {"selector", "fixer", "tester"}
      [] agent = "claude_code" -> {"architect", "reviewer", "documenter", "implementer"}
      [] agent = "gemini" -> {"api_expert", "implementer", "optimizer"}

file_patterns(agent) ==
    CASE agent = "junie" -> {"src/generators/notebooklm.py"}
      [] agent = "claude_code" -> {"README.md"}
      [] agent = "gemini" -> {"src/generators/notebooklm.py"}

\* The agents tasks are assigned to.
Assignees == {"junie"}

\* list.remove(x): the first occurrence goes.
RECURSIVE RemoveFirst(_, _)
RemoveFirst(seq, x) ==
    IF seq = <<>> THEN <<>>
    ELSE IF Head(seq) = x THEN Tail(seq)
    ELSE <<Head(seq)>> \o RemoveFirst(Tail(seq), x)

\* x in list
InList(seq, x) == \E k \in 1..Len(seq) : seq[k] = x

\* One element put into a list sorted by falling priority, after its equals.
RECURSIVE InsertByPriority(_, _, _)
InsertByPriority(sorted, x, tasks) ==
    IF sorted = <<>> THEN <<x>>
    ELSE IF tasks[Head(sorted)].priority >= tasks[x].priority
         THEN <<Head(sorted)>> \o InsertByPriority(Tail(sorted), x, tasks)
         ELSE <<x>> \o sorted

\* _sort_pending (agent_orchestrator.py:218-220): a stable sort by falling priority.
RECURSIVE _sort_pending(_, _)
_sort_pending(pending, tasks) ==
    IF pending = <<>> THEN <<>>
    ELSE InsertByPriority(_sort_pending(SubSeq(pending, 1, Len(pending) - 1), tasks),
                          pending[Len(pending)], tasks)

\* tasks with one entry set
WithTask(tasks, task_id, task) ==
    [x \in (DOMAIN tasks) \cup {task_id} |-> IF x = task_id THEN task ELSE tasks[x]]

InitQueue ==
    /\ StudioIdle /\ ClickIdle /\ FindIdle /\ ClientIdle /\ LoopIdle
    /\ ReportIdle /\ DownloadIdle /\ ProtocolIdle /\ TypingIdle
    /\ current_notebook = None
    /\ QueueIdle

notQueue == <<studioVars, clickVars, findVars, clientVars, loopVars, reportVars,
              downloadVars, protocolVars, typingVars, current_notebook>>

\* The queue changes; an answer given for the queue as it was stands no longer.
QueueBecomes(q) ==
    /\ queue' = q
    /\ next_task' = NoAnswer
    /\ UNCHANGED notQueue

\* agent_orchestrator.py:212-216. The lists stay within MaxListed entries.
add_task(task) ==
    /\ Len(queue.pending) < MaxListed
    /\ LET tasks == WithTask(queue.tasks, task.task_id, task)
       IN  QueueBecomes([queue EXCEPT
               !.tasks = tasks,
               !.pending = _sort_pending(Append(queue.pending, task.task_id), tasks)])

\* agent_orchestrator.py:260-267
assign_task(task_id, agent_type) ==
    /\ InList(queue.pending, task_id)
    /\ QueueBecomes([queue EXCEPT
           !.pending = RemoveFirst(@, task_id),
           !.assigned = @ \cup {task_id},
           !.tasks[task_id].status = "assigned",
           !.tasks[task_id].assigned_agent = agent_type])

\* agent_orchestrator.py:269-276
start_task(task_id) ==
    /\ task_id \in queue.assigned
    /\ QueueBecomes([queue EXCEPT
           !.assigned = @ \ {task_id},
           !.in_progress = @ \cup {task_id},
           !.tasks[task_id].status = "in_progress"])

\* agent_orchestrator.py:278-285
submit_for_review(task_id) ==
    /\ task_id \in queue.in_progress
    /\ QueueBecomes([queue EXCEPT
           !.in_progress = @ \ {task_id},
           !.in_review = @ \cup {task_id},
           !.tasks[task_id].status = "review"])

\* agent_orchestrator.py:287-299: the task leaves in_review, in_progress and assigned
\* (pending is not looked at) and is appended to completed. The completed and failed
\* lists stay within MaxListed entries together.
complete_task(task_id) ==
    /\ task_id \in DOMAIN queue.tasks
    /\ Len(queue.completed) + Len(queue.failed) < MaxListed
    /\ QueueBecomes([queue EXCEPT
           !.in_review = @ \ {task_id},
           !.in_progress = @ \ {task_id},
           !.assigned = @ \ {task_id},
           !.completed = Append(@, task_id),
           !.tasks[task_id].status = "completed"])

\* agent_orchestrator.py:301-317: the task leaves in_review, in_progress, assigned and
\* pending (its first occurrence there) and is appended to failed.
fail_task(task_id) ==
    /\ task_id \in DOMAIN queue.tasks
    /\ Len(queue.completed) + Len(queue.failed) < MaxListed
    /\ QueueBecomes([queue EXCEPT
           !.in_review = @ \ {task_id},
           !.in_progress = @ \ {task_id},
           !.assigned = @ \ {task_id},
           !.pending = RemoveFirst(@, task_id),
           !.failed = Append(@, task_id),
           !.tasks[task_id].status = "failed"])

\* agent_orchestrator.py:231-236: the dependency check of the first loop; an id that
\* is not a task of the queue stands for a task that is pending.
DepsComplete(task, tasks) ==
    \A k \in 1..Len(task.dependencies) :
        /\ task.dependencies[k] \in DOMAIN tasks
        /\ tasks[task.dependencies[k]].status = "completed"

\* agent_orchestrator.py:253-255: the dependency check of the fallback loop; an id
\* that is not a task of the queue is left out.
DepsCompleteAmongKnown(task, tasks) ==
    \A k \in 1..Len(task.dependencies) :
        task.dependencies[k] \in DOMAIN tasks =>
            tasks[task.dependencies[k]].status = "completed"

\* agent_orchestrator.py:239-246: the role is one the agent prefers, or a target file
\* matches one of its patterns.
Suits(task, agent) ==
    \/ task.role \in preferred_roles(agent)
    \/ \E k \in 1..Len(task.target_files) : task.target_files[k] \in file_patterns(agent)

\* The first id of the list whose task satisfies Ok, None without one.
RECURSIVE FirstPending(_, _, _, _)
FirstPending(pending, tasks, agent, strict) ==
    IF pending = <<>> THEN None
    ELSE LET task == tasks[Head(pending)]
             ok == IF strict THEN DepsComplete(task, tasks) /\ Suits(task, agent)
                   ELSE DepsCompleteAmongKnown(task, tasks)
         IN  IF ok THEN Head(pending)
             ELSE FirstPending(Tail(pending), tasks, agent, strict)

\* agent_orchestrator.py:222-258: None for an agent without capabilities; the first
\* pending task that suits the agent and has its dependencies completed; failing
\* that, the first pending task the fallback loop lets through; failing that, None.
get_next_task_for_agent(agent_type) ==
    /\ queue.tasks # <<>>
    /\ next_task' =
         IF agent_type \notin CapableAgents
         THEN [agent |-> agent_type, task_id |-> None, by |-> "no_capabilities"]
         ELSE LET suited == FirstPending(queue.pending, queue.tasks, agent_type, TRUE)
                  fallback == FirstPending(queue.pending, queue.tasks, agent_type, FALSE)
              IN  IF suited # None
                  THEN [agent |-> agent_type, task_id |-> suited, by |-> "suited"]
                  ELSE IF fallback # None
                  THEN [agent |-> agent_type, task_id |-> fallback, by |-> "fallback"]
                  ELSE [agent |-> agent_type, task_id |-> None, by |-> "none"]
    /\ queue' = queue
    /\ UNCHANGED notQueue

NextQueue ==
    \/ \E task \in TasksToAdd : add_task(task)
    \/ \E task_id \in TaskIds, agent_type \in Assignees : assign_task(task_id, agent_type)
    \/ \E task_id \in TaskIds : start_task(task_id)
    \/ \E task_id \in TaskIds : submit_for_review(task_id)
    \/ \E task_id \in TaskIds : complete_task(task_id)
    \/ \E task_id \in TaskIds : fail_task(task_id)
    \/ \E agent_type \in AgentType : get_next_task_for_agent(agent_type)

SpecQueue == InitQueue /\ [][NextQueue]_vars

\* How often an id occurs in a list.
Occurrences(seq, x) == Cardinality({k \in 1..Len(seq) : seq[k] = x})

\* The collections an id is in, each named by the status it stands for.
CollectionsOf(task_id) ==
    {c \in {"pending", "assigned", "in_progress", "review", "completed", "failed"} :
        CASE c = "pending" -> InList(queue.pending, task_id)
          [] c = "assigned" -> task_id \in queue.assigned
          [] c = "in_progress" -> task_id \in queue.in_progress
          [] c = "review" -> task_id \in queue.in_review
          [] c = "completed" -> InList(queue.completed, task_id)
          [] c = "failed" -> InList(queue.failed, task_id)}

\* C36: after any sequence of add_task, assign_task, start_task, submit_for_review,
\* complete_task and fail_task, every task id of the queue is in exactly one of
\* pending, assigned, in_progress, in_review, completed and failed, occurs there
\* once, and that collection is the one of the task's status.
C36_EveryTaskInExactlyOneCollection ==
    \A task_id \in DOMAIN queue.tasks :
        /\ CollectionsOf(task_id) = {queue.tasks[task_id].status}
        /\ Occurrences(queue.pending, task_id) <= 1
        /\ Occurrences(queue.completed, task_id) <= 1
        /\ Occurrences(queue.failed, task_id) <= 1

\* What does hold: every task id of the queue is in at least one collection, and the
\* ids of the collections are task ids of the queue.
EveryTaskIsListed ==
    /\ \A task_id \in DOMAIN queue.tasks : CollectionsOf(task_id) # {}
    /\ \A task_id \in TaskIds : CollectionsOf(task_id) # {} => task_id \in DOMAIN queue.tasks

\* A pending task qualifies: it is pending by its status and every dependency is a
\* completed task of the queue.
Qualifies(task_id) ==
    /\ InList(queue.pending, task_id)
    /\ queue.tasks[task_id].status = "pending"
    /\ DepsComplete(queue.tasks[task_id], queue.tasks)

\* C37: get_next_task_for_agent returns only a pending task all of whose dependencies
\* have status 'completed'; a task with a dependency that is not completed, or that
\* is not a task of the queue, is never returned, and None is returned when no
\* pending task qualifies.
C37_NextTaskHasCompletedDependencies ==
    next_task.agent # None =>
        /\ next_task.task_id # None => Qualifies(next_task.task_id)
        /\ (\A task_id \in DOMAIN queue.tasks : ~Qualifies(task_id)) =>
               next_task.task_id = None

\* What does hold: a task returned because it suits the agent is in pending and has
\* every dependency completed, and a task returned by the fallback is in pending and
\* has every dependency that is a task of the queue completed.
NextTaskHasKnownDependenciesCompleted ==
    (next_task.agent # None /\ next_task.task_id # None) =>
        /\ InList(queue.pending, next_task.task_id)
        /\ DepsCompleteAmongKnown(queue.tasks[next_task.task_id], queue.tasks)
        /\ next_task.by = "suited" =>
               DepsComplete(queue.tasks[next_task.task_id], queue.tasks)

\* A task that depends on an id the queue does not know was returned, while the
\* queue is as the lifecycle leaves it (no task both pending and completed).
UnknownDependencyReturned ==
    /\ next_task.task_id = "t2"
    /\ next_task.by = "fallback"
    /\ queue.tasks["t2"].dependencies = <<"t0">>
    /\ queue.tasks["t2"].status = "pending"
    /\ queue.completed = <<>>
    /\ queue.failed = <<>>

\* ============================================================ list_sources
\* Display names of sources, among them names with the letters "all" in them
\* ("Hall", "BALL", shortened).
ListingNames == {<<"L", "1">>, <<"H", "a", "l", "l">>, <<"B", "A", "L", "L">>}

\* The source panels listed: the select-all checkbox, then up to n source checkboxes,
\* each displayed or not.
RECURSIVE PanelsUpTo(_)
PanelsUpTo(n) ==
    IF n = 0 THEN {<<[aria |-> SelectAllAria, displayed |-> TRUE]>>}
    ELSE LET shorter == PanelsUpTo(n - 1)
         IN  shorter \cup
             {Append(cbs, [aria |-> nm, displayed |-> d]) :
                 cbs \in {x \in shorter : Len(x) = n}, nm \in ListingNames, d \in BOOLEAN}

\* list_sources is called on a source panel.
InitListing ==
    /\ ClickIdle /\ FindIdle /\ ClientIdle /\ LoopIdle
    /\ ReportIdle /\ DownloadIdle /\ ProtocolIdle /\ TypingIdle
    /\ current_notebook = None
    /\ QueueIdle
    /\ checkboxes \in PanelsUpTo(MaxSources)
    /\ selected = {}
    /\ source_patterns = NoList
    /\ materials = NoList
    /\ sources = <<>>
    /\ pc = "list_sources"
    /\ i = 0
    /\ j = 1
    /\ results = <<>>
    /\ all_results = [name \in {} |-> <<>>]
    /\ generation_status = <<>>
    /\ calls = <<>>
    /\ steps = NoSteps

\* studio_automator.py:230-266: list_sources returns what its loop collected; i keeps
\* the number of checkboxes examined, all of them unless an access raised.
list_sources_call ==
    /\ pc = "list_sources"
    /\ \E upto \in 0..Len(checkboxes) :
         /\ sources' = list_sources(checkboxes, upto)
         /\ i' = upto
    /\ pc' = "listed"
    /\ UNCHANGED <<checkboxes, selected, source_patterns, materials, j, results,
                   all_results, generation_status, calls, steps>>
    /\ UNCHANGED notStudio

NextListing == list_sources_call

SpecListing == InitListing /\ [][NextListing]_vars

\* The checkboxes at the positions in keep, from k on, as list_sources records them.
RECURSIVE InfosAt(_, _, _)
InfosAt(cbs, k, keep) ==
    IF k > Len(cbs) THEN <<>>
    ELSE (IF k \in keep THEN <<SourceInfo(cbs[k].aria, k)>> ELSE <<>>)
         \o InfosAt(cbs, k + 1, keep)

\* list_sources went through every checkbox.
ListedAll == pc = "listed" /\ i = Len(checkboxes)

\* C38: list_sources returns exactly the visible labelled checkboxes other than the
\* select-all control, in document order: every visible source checkbox is returned
\* whatever its name, also one whose name holds the letters 'all' in any case.
C38_ListsEveryVisibleSource ==
    ListedAll =>
        sources = InfosAt(checkboxes, 1,
                          {k \in 1..Len(checkboxes) :
                              checkboxes[k].displayed
                              /\ checkboxes[k].aria # SelectAllAria})

\* What does hold: list_sources returns exactly the visible checkboxes whose label,
\* lower-cased, does not hold the letters 'all'.
ListsVisibleSourcesWithoutAll ==
    ListedAll =>
        sources = InfosAt(checkboxes, 1,
                          {k \in 1..Len(checkboxes) :
                              checkboxes[k].displayed
                              /\ ~Contains(<<"a", "l", "l">>, Lower(checkboxes[k].aria))})

\* A visible source named "Hall" was left out of the listing, which holds the source
\* next to it.
SourceNamedHallLeftOut ==
    /\ ListedAll
    /\ Len(checkboxes) = 3
    /\ checkboxes[2] = [aria |-> <<"H", "a", "l", "l">>, displayed |-> TRUE]
    /\ checkboxes[3] = [aria |-> <<"L", "1">>, displayed |-> TRUE]
    /\ Len(sources) = 1
    /\ sources[1].name = <<"L", "1">>

====
